---- MODULE Spec2Model ----
(***************************************************************************)
(* Model of the matching engine of person-matcher-sus:                     *)
(*   data_matching/utils.py          split_list, find_root,                *)
(*                                   deduple_grouping, linkage_grouping,   *)
(*                                   format_annotation, create_json_pairs  *)
(*   data_matching/matching_base.py  MatchingBase                          *)
(*   data_matching/matching_data.py  Deduple, PLinkage                     *)
(*   process_layer/base.py           ProcessBase                           *)
(*                                                                         *)
(* Several state machines share the module.  Each one has its own initial  *)
(* predicate and next-state relation and keeps the variables of the others *)
(* at their idle values:                                                   *)
(*   SpecGroup  one call of deduple_grouping, one loop iteration per step  *)
(*   SpecSplit  one call of split_list, one slice per step                 *)
(*   SpecMatch  a matcher object (Deduple or PLinkage) from its            *)
(*              construction to the end of its perform_linkage call; each  *)
(*              method call is one step                                    *)
(*   SpecRecall the same object, with perform_linkage called twice         *)
(*   SpecExport a matcher object and its annotation files: one export      *)
(*              (save_files or save_pairs) and one load_pairs, each call   *)
(*              one step                                                   *)
(*   SpecLink   one call of linkage_grouping, one loop iteration per step  *)
(*   SpecBuild  the constructors of Deduple, PLinkage and ProcessBase, the *)
(*              matcher's method calls and assignments to the guarded      *)
(*              properties, each call or assignment one step               *)
(*                                                                         *)
(* Scores are floats in [0, 1] in the program; the model counts them in    *)
(* units of 1/2520, so 2520 stands for 1.0 and 1260 for 0.5.  2520 is the  *)
(* least common multiple of 1..10: the similarity 1 - d/n of two strings   *)
(* of at most ten letters is a whole number of units.                      *)
(***************************************************************************)
EXTENDS Integers, Sequences, FiniteSets, TLC

VARIABLES
    \* ---- deduple_grouping(pairs)
    g_pc,             \* "start" | "loop" | "done": position in the function
    pairs,            \* the confirmed pairs, <<left_id, right_id>> in row order
    unique_nots,      \* np.unique(left_nots + right_nots): sorted distinct ids
    ptr,              \* the forest: ptr[i] < 0 a root with -size, else a parent
    index,            \* the loop counter of the union loop
    matched_records,  \* the returned mapping root id -> list of member ids
    \* ---- split_list(lst, nparts)
    s_pc,             \* "loop" | "done"
    lst,              \* the list to split
    nparts,           \* the number of parts asked for
    s_i,              \* the comprehension's counter i
    s_out,            \* the slices produced so far
    \* ---- a matcher object (Deduple or PLinkage) and the calls made on it
    mode,             \* "dedup" (class Deduple) | "link" (class PLinkage)
    left_df,          \* self.left_df: the rows, indexed by id = row number
    right_df,         \* self.right_df: None, or the rows of the right source
    linkage_vars,     \* self.linkage_vars: None, or the configured rules
    compare_cl,       \* self.compare_cl: None, or the features it computes
    candidate_pairs,  \* self.candidate_pairs: None, or the list of pairs
    name_ranks,       \* self.name_ranks: None, or the rank columns by id
    comparison_matrix, \* self._comparison_matrix: None, a frame, or a list
    left_id,          \* self.left_id: the name of the identifier column
    right_id,         \* self.right_id: the same for the right source, or None
    vars_call,        \* the last set_linkage_variables or set_linkage_old call
    call,             \* the last perform_linkage call made, and how it ended
    pairs_call,       \* the last define_pairs call made, and how it ended
    calls_left,       \* how many perform_linkage calls the run still makes
    \* ---- the annotation files of the matcher object
    env_folder,       \* self.env_folder: None, or the path of the folder
    dirs,             \* the directories that exist
    files,            \* the files that exist: path -> JSON document
    io_calls,         \* the save_files, save_pairs, load_pairs calls made
    io_left,          \* how many export and load calls the run still makes
    df_pairs,         \* None, or the table returned by the last load_pairs
    \* ---- linkage_grouping(pairs)
    l_pc,             \* "start" | "loop" | "done": position in the function
    l_pairs,          \* the confirmed pairs, <<left, right>> in row order
    pairs_t,          \* the index of the grouped value counts, as a list
    l_i,              \* how many elements of pairs_t the loop has taken
    result,           \* the mapping left id -> list of right ids
    \* ---- the construction of the objects and the writes to their attributes
    init_call,        \* the MatchingBase.__init__ call made, and how it ended
    field_id,         \* ProcessBase: self.field_id
    raw_data,         \* ProcessBase: self._raw_data, None before construction
    data,             \* ProcessBase: self._data, None before construction
    freq_names,       \* ProcessBase: self.freq_names, None until it is computed
    p_call,           \* the ProcessBase.__init__ call made, and how it ended
    std_call,         \* the last basic_ or specific_standardize call made
    write             \* the last assignment to a guarded attribute

groupVars == <<g_pc, pairs, unique_nots, ptr, index, matched_records>>
splitVars == <<s_pc, lst, nparts, s_i, s_out>>
matchVars == <<mode, left_df, right_df, left_id, right_id, linkage_vars, compare_cl,
               candidate_pairs, name_ranks, comparison_matrix, vars_call,
               call, pairs_call, calls_left>>
exportVars == <<env_folder, dirs, files, io_calls, io_left, df_pairs>>
linkVars == <<l_pc, l_pairs, pairs_t, l_i, result>>
buildVars == <<init_call, field_id, raw_data, data, freq_names, p_call, std_call, write>>
vars == <<groupVars, splitVars, matchVars, exportVars, linkVars, buildVars>>

(***************************************************************************)
(* Bounds of the model.                                                    *)
(***************************************************************************)
MaxPairs == 3     \* confirmed-pair lists hold at most MaxPairs pairs
MaxLen == 10      \* split_list is given lists of at most MaxLen items
MaxParts == 4     \* split_list is asked for at most MaxParts parts
MaxRec == 3       \* the left source holds at most MaxRec records
MaxBlocks == 3    \* perform_linkage is asked for at most MaxBlocks batches
MaxRecallRec == 2 \* sources of at most MaxRecallRec records when it is called twice
MaxExport == 3    \* save_files is given at most MaxExport pairs
MaxBatch == 2     \* save_files is asked for batches of at most MaxBatch pairs
MaxClassified == 2 \* save_pairs is given at most MaxClassified pairs of a class
MaxLinks == 3     \* linkage_grouping is given at most MaxLinks pairs
MaxStandardize == 2 \* a ProcessBase object is standardized at most MaxStandardize times

\* The identifiers of the confirmed pairs: enough for two trees of two
\* elements each to be merged.
Ids == {1, 2, 3, 4}

(***************************************************************************)
(* Generic helpers.                                                        *)
(***************************************************************************)
Min(S) == CHOOSE x \in S : \A y \in S : x <= y

RECURSIVE SortedSeq(_)
\* The elements of a finite set of integers in ascending order.
SortedSeq(S) == IF S = {} THEN <<>>
                ELSE <<Min(S)>> \o SortedSeq(S \ {Min(S)})

Range(s) == {s[k] : k \in DOMAIN s}

RECURSIVE Flatten(_)
\* The concatenation of a sequence of sequences.
Flatten(ss) == IF ss = <<>> THEN <<>> ELSE Head(ss) \o Flatten(Tail(ss))

\* Python's lst[a:b] for 0 <= a and 0 <= b (indices clipped to the length).
Slice(s, a, b) ==
    LET lo == IF a > Len(s) THEN Len(s) ELSE a
        hi == IF b > Len(s) THEN Len(s) ELSE b
    IN IF hi <= lo THEN <<>> ELSE SubSeq(s, lo + 1, hi)

(***************************************************************************)
(* deduple_grouping                                                        *)
(***************************************************************************)
\* left_nots + right_nots made unique and sorted (np.unique).
unique_of(ps) == SortedSeq({ps[k][1] : k \in DOMAIN ps} \cup {ps[k][2] : k \in DOMAIN ps})

\* ptr = np.zeros(n, int) - 1, positions 0..n-1.
ptr_init(u) == [k \in 0..(Len(u) - 1) |-> -1]

\* ptr_index[id]: the position of id in unique_nots.
ptr_index(u, id) == CHOOSE k \in 0..(Len(u) - 1) : u[k + 1] = id

\* find_root following a single parent link instead of the whole chain.
find_root_one_hop(idx, p) == IF p[idx] >= 0 THEN p[idx] ELSE idx

RECURSIVE find_root(_, _)
find_root(idx, p) == IF p[idx] >= 0 THEN find_root(p[idx], p) ELSE idx

\* union_step linking the compared element instead of its root.
union_step_links_element(p, left_index, right_index) ==
    LET left_root == find_root(left_index, p)
        right_root == find_root(right_index, p)
        swap == p[right_root] < p[left_root]
        bigger_root == IF swap THEN right_root ELSE left_root
        smaller_root == IF swap THEN left_root ELSE right_root
        smaller_index == IF swap THEN left_index ELSE right_index
    IN IF left_root = right_root THEN p
       ELSE [p EXCEPT ![bigger_root] = p[bigger_root] + p[smaller_root],
                      ![smaller_index] = bigger_root]

\* union_step leaving the counter of the bigger root as it was.
union_step_keeps_counter(p, left_index, right_index) ==
    LET left_root == find_root(left_index, p)
        right_root == find_root(right_index, p)
        swap == p[right_root] < p[left_root]
        bigger_root == IF swap THEN right_root ELSE left_root
        smaller_root == IF swap THEN left_root ELSE right_root
    IN IF left_root = right_root THEN p
       ELSE [p EXCEPT ![smaller_root] = bigger_root]

\* union_step swapping on equal sizes too (<= for <).
union_step_swaps_on_tie(p, left_index, right_index) ==
    LET left_root == find_root(left_index, p)
        right_root == find_root(right_index, p)
        swap == p[right_root] <= p[left_root]
        bigger_root == IF swap THEN right_root ELSE left_root
        smaller_root == IF swap THEN left_root ELSE right_root
    IN IF left_root = right_root THEN p
       ELSE [p EXCEPT ![bigger_root] = p[bigger_root] + p[smaller_root],
                      ![smaller_root] = bigger_root]

\* The body of the union loop for one pair, on positions.
union_step(p, left_index, right_index) ==
    LET left_root == find_root(left_index, p)
        right_root == find_root(right_index, p)
        swap == p[right_root] < p[left_root]
        bigger_root == IF swap THEN right_root ELSE left_root
        smaller_root == IF swap THEN left_root ELSE right_root
    IN IF left_root = right_root THEN p
       ELSE [p EXCEPT ![bigger_root] = p[bigger_root] + p[smaller_root],
                      ![smaller_root] = bigger_root]

\* The loop body linking the compared element instead of its root.
loop_body_links_element(p, u, pr) ==
    union_step_links_element(p, ptr_index(u, pr[1]), ptr_index(u, pr[2]))

\* One iteration of the loop for the pair pr = <<left, right>>.
loop_body(p, u, pr) == union_step(p, ptr_index(u, pr[1]), ptr_index(u, pr[2]))

\* group_records without the test root_not != local_not.
group_records_lists_root(p, u) ==
    LET root_not(id) == u[find_root(ptr_index(u, id), p) + 1]
        keys == {root_not(id) : id \in Range(u)}
    IN [k \in keys |-> SelectSeq(u, LAMBDA x : root_not(x) = k)]

\* The output loop: every id whose root differs from itself is appended, in
\* position order, to the list of its root's id.
group_records(p, u) ==
    LET root_not(id) == u[find_root(ptr_index(u, id), p) + 1]
        keys == {root_not(id) : id \in {x \in Range(u) : root_not(x) /= x}}
    IN [k \in keys |-> SelectSeq(u, LAMBDA x : x /= root_not(x) /\ root_not(x) = k)]

\* ---- the variant of the specification: find_root with path compression
RECURSIVE path_to_root(_, _)
\* The elements find_root visits from idx, the root left out.
path_to_root(idx, p) == IF p[idx] >= 0 THEN {idx} \cup path_to_root(p[idx], p) ELSE {}

\* The forest after find_root with path compression was called on idx:
\* every element on the way points to the root.
compress(idx, p) ==
    [k \in DOMAIN p |-> IF k \in path_to_root(idx, p) THEN find_root(idx, p) ELSE p[k]]

\* The loop body with the compressing find_root: the two lookups compress,
\* then the roots are joined as in union_step.  (Each forest is written as
\* the element of a one-element set, so that it is computed once.)
loop_body_compressed(p, u, pr) ==
    LET left_index == ptr_index(u, pr[1])
        right_index == ptr_index(u, pr[2])
    IN CHOOSE r \in {union_step(q2, left_index, right_index) :
                        q2 \in {compress(right_index, q1) :
                                   q1 \in {compress(left_index, p)}}} : TRUE

RECURSIVE run_unions_compressed(_, _, _)
run_unions_compressed(p, u, ps) ==
    IF ps = <<>> THEN p
    ELSE CHOOSE r \in {run_unions_compressed(q, u, Tail(ps)) :
                          q \in {loop_body_compressed(p, u, Head(ps))}} : TRUE

RECURSIVE compress_all(_, _)
\* The forest after the output loop looked up the elements 0..n.
compress_all(n, p) ==
    IF n < 0 THEN p
    ELSE CHOOSE r \in {compress(n, q) : q \in {compress_all(n - 1, p)}} : TRUE

\* The output loop with the compressing find_root: the lookup of position
\* k runs on the forest that the lookups of the positions before k left.
group_records_compressed(p, u) ==
    LET root_not(id) == u[find_root(ptr_index(u, id),
                                    compress_all(ptr_index(u, id) - 1, p)) + 1]
        keys == {root_not(id) : id \in {x \in Range(u) : root_not(x) /= x}}
    IN [k \in keys |-> SelectSeq(u, LAMBDA x : x /= root_not(x) /\ root_not(x) = k)]

\* The whole function with the compressing find_root.
deduple_grouping_compressed(ps) ==
    CHOOSE r \in {group_records_compressed(q, u) :
                     u \in {unique_of(ps)},
                     q \in {run_unions_compressed(ptr_init(unique_of(ps)), unique_of(ps), ps)}} : TRUE

RECURSIVE run_unions(_, _, _)
run_unions(p, u, ps) == IF ps = <<>> THEN p
                        ELSE run_unions(loop_body(p, u, Head(ps)), u, Tail(ps))

\* The whole function on a pair list.
deduple_grouping(ps) ==
    LET u == unique_of(ps)
    IN group_records(run_unions(ptr_init(u), u, ps), u)

\* The worked example of the specification, section 8, scenario 2.
ExamplePairs == <<<<1, 2>>, <<2, 3>>, <<4, 5>>>>

\* A list that builds a tree of depth two (4 under 3 under 1) and then
\* looks up its deepest element.
DeepPairs == <<<<1, 2>>, <<3, 4>>, <<1, 3>>, <<4, 5>>>>

\* DeepPairs in every order.
DeepLists == {[k \in 1..4 |-> DeepPairs[f[k]]] : f \in Permutations(1..4)}

\* The inputs: every list of at most MaxPairs pairs over Ids, the example,
\* and the lists of DeepLists.
PairLists ==
    UNION {[1..n -> Ids \X Ids] : n \in 0..MaxPairs} \cup {ExamplePairs} \cup DeepLists

GroupIdle ==
    /\ g_pc = "idle" /\ pairs = <<>> /\ unique_nots = <<>>
    /\ ptr = <<>> /\ index = 0 /\ matched_records = <<>>

GroupInit ==
    /\ g_pc = "start"
    /\ pairs \in PairLists
    /\ unique_nots = <<>>
    /\ ptr = <<>>
    /\ index = 0
    /\ matched_records = <<>>

\* Lines 261-270: the ids and the forest of singletons.
GroupStart ==
    /\ g_pc = "start"
    /\ unique_nots' = unique_of(pairs)
    /\ ptr' = ptr_init(unique_of(pairs))
    /\ g_pc' = "loop"
    /\ UNCHANGED <<pairs, index, matched_records, splitVars, matchVars, exportVars, linkVars, buildVars>>

\* Lines 273-292: one iteration of the union loop.
GroupUnion ==
    /\ g_pc = "loop"
    /\ index < Len(pairs)
    /\ ptr' = loop_body(ptr, unique_nots, pairs[index + 1])
    /\ index' = index + 1
    /\ UNCHANGED <<g_pc, pairs, unique_nots, matched_records, splitVars, matchVars, exportVars, linkVars, buildVars>>

\* Lines 294-301: the output mapping.
GroupCollect ==
    /\ g_pc = "loop"
    /\ index = Len(pairs)
    /\ matched_records' = group_records(ptr, unique_nots)
    /\ g_pc' = "done"
    /\ UNCHANGED <<pairs, unique_nots, ptr, index, splitVars, matchVars, exportVars, linkVars, buildVars>>

(***************************************************************************)
(* split_list                                                              *)
(***************************************************************************)
\* split_part with the remainder left out of the end of the slice.
split_part_drops_remainder(l, k, i) ==
    LET n == Len(l)
    IN Slice(l, i * (n \div k) + (IF i < n % k THEN i ELSE n % k),
                (i + 1) * (n \div k) + (IF i < n % k THEN i ELSE n % k))

\* The i-th slice of the comprehension of line 22.
split_part(l, k, i) ==
    LET n == Len(l)
    IN Slice(l, i * (n \div k) + (IF i < n % k THEN i ELSE n % k),
                (i + 1) * (n \div k) + (IF i + 1 < n % k THEN i + 1 ELSE n % k))

\* The whole function.
split_list(l, k) == [i \in 1..k |-> split_part(l, k, i - 1)]

SplitIdle ==
    /\ s_pc = "idle" /\ lst = <<>> /\ nparts = 0 /\ s_i = 0 /\ s_out = <<>>

\* The list items stand for candidate pairs; an item is its own position.
SplitInit ==
    /\ s_pc = "loop"
    /\ \E n \in 0..MaxLen : lst = [k \in 1..n |-> k]
    /\ nparts \in 1..MaxParts
    /\ s_i = 0
    /\ s_out = <<>>

\* One element of the comprehension: for i in range(nparts).
SplitStep ==
    /\ s_pc = "loop"
    /\ s_i < nparts
    /\ s_out' = Append(s_out, split_part(lst, nparts, s_i))
    /\ s_i' = s_i + 1
    /\ UNCHANGED <<s_pc, lst, nparts, groupVars, matchVars, exportVars, linkVars, buildVars>>

\* The comprehension is exhausted: return.
SplitReturn ==
    /\ s_pc = "loop"
    /\ s_i = nparts
    /\ s_pc' = "done"
    /\ UNCHANGED <<lst, nparts, s_i, s_out, groupVars, matchVars, exportVars, linkVars, buildVars>>

(***************************************************************************)
(* The matcher: MatchingBase, Deduple, PLinkage.                           *)
(*                                                                         *)
(* A missing value (None, NaN) is the empty tuple and a present value v is *)
(* <<v>>.  A name is a non-empty tuple of letters; a missing name is NaN.  *)
(* A record's id is its row number.  Blocking and comparison both use the  *)
(* field primeiro_nome.  The library calls (recordlinkage's                *)
(* SortedNeighbourhood index and Compare.compute) are modelled by what     *)
(* they return for these inputs.                                           *)
(***************************************************************************)
None == <<>>
NaN == <<>>
Some(v) == <<v>>

\* 1.0 in units of 1/2520: the largest threshold that censors.
ScoreOne == 2520

\* The value given to a missing rank.
RankSentinel == 7

RankLabels == <<"rank_primeiro_nome", "rank_primeiro_nome_mae">>

\* The columns of a source of records to match.
RecordColumns == {"primeiro_nome", "rank_primeiro_nome", "rank_primeiro_nome_mae"}

Rec(nome, r1, r2) ==
    [primeiro_nome |-> nome, rank_primeiro_nome |-> r1, rank_primeiro_nome_mae |-> r2]

\* The records a source is made of: a name with both ranks, a name without
\* its own rank, a name without the mother's rank, and a record without
\* name and ranks.
RecordValues == {Rec(<<1>>, Some(2), Some(0)),
                 Rec(<<1, 2>>, NaN, Some(3)),
                 Rec(<<2>>, Some(1), NaN),
                 Rec(NaN, NaN, NaN)}

LeftFrames == UNION {[1..n -> RecordValues] : n \in 0..MaxRec}

RightFrames == {<<>>,
                <<Rec(<<1>>, Some(2), Some(0))>>,
                <<Rec(<<1, 2>>, NaN, Some(3)), Rec(<<1>>, Some(2), Some(0))>>}

Rule(cmethod, label) ==
    [left_field |-> "primeiro_nome", right_field |-> "primeiro_nome",
     cmethod |-> cmethod, label |-> label]

\* The rule lists given to set_linkage_variables.
RuleLists == {<<Rule("exact", "nome_exato"), Rule("string", "nome_sim")>>,
              <<Rule("numerical", "nasc_num"), Rule("string", "nome_sim"),
                Rule("date", "nasc_data")>>}

\* The windows given to define_pairs (odd integers).
Windows == {1, 3}

\* The thresholds given to perform_linkage: None, 0.5, 1.0, 1.5.
Thresholds == {None, Some(ScoreOne \div 2), Some(ScoreOne), Some((3 * ScoreOne) \div 2)}

\* The string methods given to set_linkage_variables and set_linkage_old.
DefaultMethod == "damerau_levenshtein"
StringMethods == {"damerau_levenshtein", "levenshtein"}

\* An entry of the dictionary given to set_linkage_old: a field name and
\* its list of values.
OldRule(key, values) == [key |-> key, values |-> values]

\* The dictionaries given to set_linkage_old, as their items in order: a
\* string rule with the threshold 0.8, and an exact rule followed by a
\* string rule that lacks its threshold.
OldRuleDicts ==
    {<<OldRule("primeiro_nome", <<"string", (4 * ScoreOne) \div 5>>)>>,
     <<OldRule("rank_primeiro_nome", <<"exact">>), OldRule("primeiro_nome", <<"string">>)>>}

\* The column lists given to get_rank_names: the default, one column, and a
\* name that is no column.
RankColnames == {RankLabels, <<"rank_primeiro_nome">>, <<"rank_nome">>}

\* ---- set_linkage_variables, set_linkage_old ----------------------------
\* A feature of compare_cl: what recordlinkage.Compare keeps of a call of
\* its exact or string method.
Feature(cmethod, left_field, right_field, label, threshold, method) ==
    [cmethod |-> cmethod, left_field |-> left_field, right_field |-> right_field,
     label |-> label, threshold |-> threshold, method |-> method]

\* Lines 96-99: the feature an 'exact' or 'string' rule adds.
feature_of_rule(e, string_method) ==
    IF e.cmethod = "exact"
    THEN Feature("exact", e.left_field, e.right_field, e.label, None, None)
    ELSE Feature("string", e.left_field, e.right_field, e.label, None, Some(string_method))

\* Every rule adds a feature, the placeholders too.
features_of_all_rules(lv, string_method) ==
    [c \in DOMAIN lv |-> feature_of_rule(lv[c], string_method)]

\* The features of compare_cl after the loop of set_linkage_variables: only
\* 'exact' and 'string' rules add one.
features(lv, string_method) ==
    LET kept == SelectSeq(lv, LAMBDA e : e.cmethod \in {"exact", "string"})
    IN [c \in DOMAIN kept |-> feature_of_rule(kept[c], string_method)]

\* Lines 141-144: values[0] of an empty list and values[1] of a 'string'
\* entry of one element raise IndexError.
old_rule_raises(e) ==
    \/ Len(e.values) = 0
    \/ e.values[1] = "string" /\ Len(e.values) < 2

\* The entries set_linkage_old goes through before it raises or ends.
old_rules_done(compare_rules) ==
    LET bad == {c \in DOMAIN compare_rules : old_rule_raises(compare_rules[c])}
    IN IF bad = {} THEN compare_rules ELSE SubSeq(compare_rules, 1, Min(bad) - 1)

\* Line 136: list(compare_rules.keys()).
old_keys(compare_rules) == [c \in DOMAIN compare_rules |-> compare_rules[c].key]

\* Lines 140-146: an 'exact' entry adds an exact feature and a 'string' entry
\* a string feature with the threshold values[1], both labelled by the key.
old_features(compare_rules, string_method) ==
    LET kept == SelectSeq(old_rules_done(compare_rules),
                          LAMBDA e : e.values[1] \in {"exact", "string"})
    IN [c \in DOMAIN kept |->
           IF kept[c].values[1] = "exact"
           THEN Feature("exact", kept[c].key, kept[c].key, kept[c].key, None, None)
           ELSE Feature("string", kept[c].key, kept[c].key, kept[c].key,
                        Some(kept[c].values[2]), Some(string_method))]

Labels(feats) == [c \in DOMAIN feats |-> feats[c].label]

\* ---- define_pairs (sorted neighbourhood on primeiro_nome) ---------------
RECURSIVE LexLess(_, _)
\* The order of two names as strings.
LexLess(a, b) ==
    IF b = <<>> THEN FALSE
    ELSE IF a = <<>> THEN TRUE
    ELSE IF Head(a) /= Head(b) THEN Head(a) < Head(b)
    ELSE LexLess(Tail(a), Tail(b))

\* The rank of a key among the sorted distinct keys of both sources.
key_factor(k, L, R) ==
    Cardinality({x \in {L[i].primeiro_nome : i \in DOMAIN L}
                        \cup {R[j].primeiro_nome : j \in DOMAIN R} :
                    x /= NaN /\ LexLess(x, k)})

\* link_index with lags up to window - 1 instead of (window - 1) / 2.
link_index_whole_window(L, R, window) ==
    LET w == window - 1
        triples == Flatten([t \in 1..(2 * w + 1) |->
                       Flatten([i \in 1..Len(L) |->
                           [j \in 1..Len(R) |-> <<t - 1 - w, i, j>>]])])
        hit(x) == /\ L[x[2]].primeiro_nome /= NaN
                  /\ R[x[3]].primeiro_nome /= NaN
                  /\ key_factor(L[x[2]].primeiro_nome, L, R)
                         = key_factor(R[x[3]].primeiro_nome, L, R) + x[1]
        kept == SelectSeq(triples, hit)
    IN [n \in DOMAIN kept |-> <<kept[n][2], kept[n][3]>>]

\* Rows i of L and j of R whose key ranks differ by at most (window-1)/2, in
\* the order of the lagged merges: by lag, then by left row, then by right
\* row.  Rows without key are dropped.
link_index(L, R, window) ==
    LET w == (window - 1) \div 2
        triples == Flatten([t \in 1..(2 * w + 1) |->
                       Flatten([i \in 1..Len(L) |->
                           [j \in 1..Len(R) |-> <<t - 1 - w, i, j>>]])])
        hit(x) == /\ L[x[2]].primeiro_nome /= NaN
                  /\ R[x[3]].primeiro_nome /= NaN
                  /\ key_factor(L[x[2]].primeiro_nome, L, R)
                         = key_factor(R[x[3]].primeiro_nome, L, R) + x[1]
        kept == SelectSeq(triples, hit)
    IN [n \in DOMAIN kept |-> <<kept[n][2], kept[n][3]>>]

\* dedup_index keeping the diagonal too (>= for >).
dedup_index_keeps_diagonal(L, window) ==
    SelectSeq(link_index(L, L, window), LAMBDA pr : pr[1] >= pr[2])

\* Deduplication keeps the pairs below the diagonal: the record later in row
\* order comes first in each pair.
dedup_index(L, window) ==
    SelectSeq(link_index(L, L, window), LAMBDA pr : pr[1] > pr[2])

\* The number of pairs that indexer.index takes as the maximum: n (n - 1) / 2
\* for one source, the product of the lengths for two.
max_pairs(md, L, R) ==
    IF md = "dedup" THEN (Len(L) * (Len(L) - 1)) \div 2 ELSE Len(L) * Len(R[1])

\* indexer.index ends by computing the reduction ratio 1 - n / n_max.  For
\* one source n and n_max are Python integers and the division raises when
\* n_max is 0; for two sources n_max is a numpy integer and the division
\* gives nan.
index_raises(md, L, R) == md = "dedup" /\ max_pairs(md, L, R) = 0

\* ---- Compare.compute ----------------------------------------------------
Min2(a, b) == IF a <= b THEN a ELSE b

\* The last position before i at which the string a holds the letter ch
\* (0: none).
last_before(a, i, ch) ==
    LET S == {k \in 1..(i - 1) : a[k] = ch}
    IN IF S = {} THEN 0 ELSE CHOOSE k \in S : \A m \in S : m <= k

RECURSIVE levenshtein_distance(_, _, _, _)
\* Levenshtein distance of the prefixes a[1..i] and b[1..j]: insertions,
\* deletions and substitutions.
levenshtein_distance(a, b, i, j) ==
    IF i = 0 THEN j
    ELSE IF j = 0 THEN i
    ELSE LET cost == IF a[i] = b[j] THEN 0 ELSE 1
         IN Min2(Min2(levenshtein_distance(a, b, i - 1, j) + 1,
                      levenshtein_distance(a, b, i, j - 1) + 1),
                 levenshtein_distance(a, b, i - 1, j - 1) + cost)

RECURSIVE edit_distance(_, _, _, _)
\* Damerau-Levenshtein distance of the prefixes a[1..i] and b[1..j], as
\* jellyfish.damerau_levenshtein_distance computes it: a transposition of
\* two letters counts 1 also when letters were inserted or deleted between
\* them ('ca' -> 'abc' is 2).
edit_distance(a, b, i, j) ==
    IF i = 0 THEN j
    ELSE IF j = 0 THEN i
    ELSE LET cost == IF a[i] = b[j] THEN 0 ELSE 1
             d == Min2(Min2(edit_distance(a, b, i - 1, j) + 1,
                            edit_distance(a, b, i, j - 1) + 1),
                       edit_distance(a, b, i - 1, j - 1) + cost)
             i1 == last_before(a, i, b[j])
             j1 == last_before(b, j, a[i])
         IN IF i1 > 0 /\ j1 > 0
            THEN Min2(d, edit_distance(a, b, i1 - 1, j1 - 1)
                             + (i - i1 - 1) + 1 + (j - j1 - 1))
            ELSE d

\* compare_cl.exact: 1.0 when both values are present and equal, else 0.0.
exact_score(x, y) == IF x /= NaN /\ y /= NaN /\ x = y THEN ScoreOne ELSE 0

\* The distance of the string method.
distance(x, y, method) ==
    IF method = "levenshtein" THEN levenshtein_distance(x, y, Len(x), Len(y))
    ELSE edit_distance(x, y, Len(x), Len(y))

\* The similarity 1 - distance / longest length of two strings.
similarity(x, y, method) ==
    LET longest == IF Len(x) >= Len(y) THEN Len(x) ELSE Len(y)
    IN (ScoreOne * (longest - distance(x, y, method))) \div longest

\* compare_cl.string with the default method and no threshold: the
\* similarity; 0.0 on a missing value.
string_score(x, y) ==
    IF x = NaN \/ y = NaN THEN 0 ELSE similarity(x, y, DefaultMethod)

\* compare_cl.string with a threshold: 1.0 when the similarity reaches the
\* threshold, else 0.0; 0.0 on a missing value.
string_feature_score(f, x, y) ==
    IF x = NaN \/ y = NaN THEN 0
    ELSE IF f.threshold = None THEN similarity(x, y, f.method[1])
    ELSE IF similarity(x, y, f.method[1]) >= f.threshold[1] THEN ScoreOne
    ELSE 0

feature_score(f, a, b) ==
    IF f.cmethod = "exact" THEN exact_score(a[f.left_field], b[f.right_field])
    ELSE string_feature_score(f, a[f.left_field], b[f.right_field])

\* The frame the right-hand ids of the pairs refer to.
other_df(md, L, R) == IF md = "dedup" THEN L ELSE R[1]

\* compare_cl.compute(pairs, ...): one row per pair, one score per feature.
compute(feats, ps, L, R) ==
    [n \in 1..Len(ps) |->
        [pair |-> ps[n],
         vals |-> [c \in 1..Len(feats) |-> feature_score(feats[c], L[ps[n][1]], R[ps[n][2]])]]]

\* ---- perform_linkage ----------------------------------------------------
\* The comparison running on an empty list of pairs too.
compares_any_list(ps, k) == k >= 1

\* The comparison running for every number_of_blocks.
compares_any_count(ps, k) == Len(ps) > 0

\* Lines 48 and 51: the pairs are compared when there are some and
\* number_of_blocks is at least 1; otherwise the call returns at line 66.
compares(ps, k) == Len(ps) > 0 /\ k >= 1

\* The batches compared: the whole list, or the slices of split_list.
blocks(ps, k) == IF k = 1 THEN <<ps>> ELSE split_list(ps, k)

\* The results of the first n batches.
block_results(feats, ps, L, R, k, n) ==
    [b \in 1..n |-> compute(feats, blocks(ps, k)[b], L, R)]

\* Censoring with <= for <.
censor_including_threshold(rows, threshold) ==
    IF threshold /= None /\ threshold[1] <= ScoreOne
    THEN [n \in DOMAIN rows |->
            [rows[n] EXCEPT !.vals = [c \in DOMAIN @ |-> IF @[c] <= threshold[1] THEN 0 ELSE @[c]]]]
    ELSE rows

\* Lines 69-70 and 138-139: scores below the threshold become 0.0 when a
\* threshold is given and it is at most 1.0.
censor(rows, threshold) ==
    IF threshold /= None /\ threshold[1] <= ScoreOne
    THEN [n \in DOMAIN rows |->
            [rows[n] EXCEPT !.vals = [c \in DOMAIN @ |-> IF @[c] < threshold[1] THEN 0 ELSE @[c]]]]
    ELSE rows

\* get_rank_names, line 115: self.left_df[rank_colnames] raises KeyError
\* for a name that is no column.
rank_names_raises(rank_colnames) ==
    \E c \in DOMAIN rank_colnames : rank_colnames[c] \notin RecordColumns

\* get_rank_names: the columns rank_colnames of the left source, by id.
rank_names(L, rank_colnames) ==
    [i \in DOMAIN L |-> [c \in DOMAIN rank_colnames |-> L[i][rank_colnames[c]]]]

\* The columns of left.merge(right, ..., right_index=True): a name that both
\* frames have gets the suffix _x on the left and _y on the right.
merge_columns(left_cols, right_cols) ==
    [c \in DOMAIN left_cols |->
        IF left_cols[c] \in Range(right_cols) THEN left_cols[c] \o "_x" ELSE left_cols[c]]
    \o [c \in DOMAIN right_cols |->
           IF right_cols[c] \in Range(left_cols) THEN right_cols[c] \o "_y" ELSE right_cols[c]]

\* fillna(7) on a merged cell.
fillna(cell) == IF cell = NaN THEN RankSentinel ELSE cell[1]

\* Lines 73 and 142: the left merge of the rank columns on the left-hand id
\* of each row, then fillna(7).
merge_ranks(rows, nr) ==
    [n \in DOMAIN rows |->
        [rows[n] EXCEPT !.vals = @ \o [c \in 1..Len(RankLabels) |-> fillna(nr[rows[n].pair[1]][c])]]]

\* The censoring applied after the rank merge, to every cell and for every
\* threshold: a rank r is the number r.0, which is r times ScoreOne.
linkage_frame_censoring_last(feats, ps, L, R, threshold, k) ==
    LET merged == merge_ranks(Flatten(block_results(feats, ps, L, R, k, Len(blocks(ps, k)))),
                              rank_names(L, RankLabels))
        cell(v, c) == IF c <= Len(feats)
                      THEN (IF v < threshold[1] THEN 0 ELSE v)
                      ELSE (IF ScoreOne * v < threshold[1] THEN 0 ELSE v)
    IN [kind |-> "frame",
        cols |-> merge_columns(Labels(feats), RankLabels),
        rows |-> IF threshold = None THEN merged
                 ELSE [n \in DOMAIN merged |->
                          [merged[n] EXCEPT !.vals = [c \in DOMAIN @ |-> cell(@[c], c)]]]]

\* The matrix of scores once it is censored (lines 70 and 139) and before
\* the rank columns are merged.
scores_frame(feats, ps, L, R, threshold, k) ==
    [kind |-> "frame",
     cols |-> Labels(feats),
     rows |-> censor(Flatten(block_results(feats, ps, L, R, k, Len(blocks(ps, k)))),
                     threshold)]

\* The levels of the matrix index are named left_id_1 and left_id_2 by
\* Deduple (lines 31, 58) and left_id and right_id by PLinkage (lines 98,
\* 126).  The merge of line 142 takes the level called left_id: when
\* right_id is the same name, the name stands for two levels and pandas
\* raises ValueError.
merge_raises(md, lid, rid) == md = "link" /\ lid = rid

\* The matrix a call that does not fail leaves in _comparison_matrix.
linkage_frame(feats, ps, L, R, threshold, k) ==
    [kind |-> "frame",
     cols |-> merge_columns(Labels(feats), RankLabels),
     rows |-> merge_ranks(censor(Flatten(block_results(feats, ps, L, R, k, Len(blocks(ps, k)))),
                                 threshold),
                          rank_names(L, RankLabels))]

NoMatrix == [kind |-> "none"]

NoCall == [op |-> "none", threshold |-> None, number_of_blocks |-> 0, raised |-> "no"]

NoPairsCall == [op |-> "none", window |-> 0, raised |-> "no"]

NoVarsCall == [op |-> "none", arg |-> <<>>, string_method |-> None, raised |-> "no"]

\* The caller holds no matcher object.
NoObject ==
    /\ mode = "idle" /\ left_df = <<>> /\ right_df = None /\ linkage_vars = None
    /\ left_id = None /\ right_id = None
    /\ compare_cl = None /\ candidate_pairs = None /\ name_ranks = None
    /\ comparison_matrix = NoMatrix /\ call = NoCall
    /\ pairs_call = NoPairsCall /\ vars_call = NoVarsCall

MatchIdle == NoObject /\ calls_left = 0

\* The names of the identifier column of the right source.
RightIdNames == {"id", "id_right"}

\* The object after MatchingBase.__init__ (lines 34-57).  The identifier
\* column of the right source has the name of the left one or its own.
MatchInit ==
    /\ mode \in {"dedup", "link"}
    /\ left_df \in LeftFrames
    /\ right_df \in (IF mode = "dedup" THEN {None} ELSE {Some(R) : R \in RightFrames})
    /\ left_id = Some("id")
    /\ right_id \in (IF mode = "dedup" THEN {None} ELSE {Some(n) : n \in RightIdNames})
    /\ linkage_vars = None
    /\ candidate_pairs = None
    /\ name_ranks = None
    /\ compare_cl = None
    /\ comparison_matrix = NoMatrix
    /\ call = NoCall
    /\ pairs_call = NoPairsCall
    /\ vars_call = NoVarsCall

\* set_linkage_variables(linkage_vars, string_method), lines 92-106.
SetLinkageVariables(lv, string_method) ==
    /\ mode /= "idle"
    /\ calls_left > 0
    /\ linkage_vars' = Some(lv)
    /\ compare_cl' = Some(features(lv, string_method))
    /\ vars_call' = [op |-> "set_linkage_variables", arg |-> lv,
                     string_method |-> Some(string_method), raised |-> "no"]
    /\ UNCHANGED <<mode, left_df, right_df, left_id, right_id, candidate_pairs, name_ranks,
                   comparison_matrix, call, pairs_call, calls_left,
                   groupVars, splitVars, exportVars, linkVars, buildVars>>

\* set_linkage_old(compare_rules, string_method), lines 136-147.  The
\* attributes are assigned before the loop, and the features added before
\* an entry raises stay in compare_cl.
SetLinkageOld(compare_rules, string_method) ==
    /\ mode /= "idle"
    /\ calls_left > 0
    /\ linkage_vars' = Some(old_keys(compare_rules))
    /\ compare_cl' = Some(old_features(compare_rules, string_method))
    /\ vars_call' = [op |-> "set_linkage_old", arg |-> compare_rules,
                     string_method |-> Some(string_method),
                     raised |-> IF old_rules_done(compare_rules) = compare_rules
                                THEN "no" ELSE "IndexError"]
    /\ UNCHANGED <<mode, left_df, right_df, left_id, right_id, candidate_pairs, name_ranks,
                   comparison_matrix, call, pairs_call, calls_left,
                   groupVars, splitVars, exportVars, linkVars, buildVars>>

\* get_rank_names(rank_colnames) called from outside, line 115.
GetRankNames(rank_colnames) ==
    /\ mode /= "idle"
    /\ calls_left > 0
    /\ IF rank_names_raises(rank_colnames)
       THEN \* KeyError: nothing is assigned
            UNCHANGED name_ranks
       ELSE name_ranks' = Some(rank_names(left_df, rank_colnames))
    /\ UNCHANGED <<mode, left_df, right_df, left_id, right_id, linkage_vars, compare_cl,
                   candidate_pairs, comparison_matrix, vars_call, call, pairs_call, calls_left,
                   groupVars, splitVars, exportVars, linkVars, buildVars>>

\* define_pairs(blocking_var, window): Deduple lines 26-33, PLinkage 94-100.
DefinePairs(window) ==
    /\ mode /= "idle"
    /\ calls_left > 0
    /\ LET ended(how) == [op |-> "define_pairs", window |-> window, raised |-> how]
       IN IF index_raises(mode, left_df, right_df)
          THEN \* indexer.index raises before the assignment of line 28
               /\ pairs_call' = ended("ZeroDivisionError")
               /\ UNCHANGED candidate_pairs
          ELSE /\ pairs_call' = ended("no")
               /\ candidate_pairs' = Some(IF mode = "dedup"
                                          THEN dedup_index(left_df, window)
                                          ELSE link_index(left_df, right_df[1], window))
    /\ UNCHANGED <<mode, left_df, right_df, left_id, right_id, linkage_vars, compare_cl, name_ranks,
                   comparison_matrix, vars_call, call, calls_left,
                   groupVars, splitVars, exportVars, linkVars, buildVars>>

\* perform_linkage(threshold, number_of_blocks): Deduple lines 48-75,
\* PLinkage lines 115-144.  fail_at is the batch whose comparison raises
\* (0: none does).
PerformLinkage(threshold, k, fail_at) ==
    /\ mode /= "idle"
    /\ calls_left > 0
    /\ calls_left' = calls_left - 1
    /\ LET ended(how) == [op |-> "perform_linkage", threshold |-> threshold,
                          number_of_blocks |-> k, raised |-> how]
           R == other_df(mode, left_df, right_df)
       IN IF candidate_pairs = None
          THEN \* len(None) raises
               /\ fail_at = 0
               /\ call' = ended("TypeError")
               /\ UNCHANGED <<comparison_matrix, name_ranks>>
          ELSE IF ~compares(candidate_pairs[1], k)
          THEN \* the else branch: return self
               /\ fail_at = 0
               /\ call' = ended("no")
               /\ UNCHANGED <<comparison_matrix, name_ranks>>
          ELSE IF compare_cl = None
          THEN \* None has no compute
               /\ fail_at = 0
               /\ call' = ended("AttributeError")
               /\ comparison_matrix' = (IF k = 1 THEN comparison_matrix
                                        ELSE [kind |-> "list", parts |-> <<>>])
               /\ UNCHANGED name_ranks
          ELSE IF fail_at > 0
          THEN \* compute raises on batch fail_at
               /\ fail_at <= Len(blocks(candidate_pairs[1], k))
               /\ call' = ended("ComputeError")
               /\ comparison_matrix' =
                      (IF k = 1 THEN comparison_matrix
                       ELSE [kind |-> "list",
                             parts |-> block_results(compare_cl[1], candidate_pairs[1],
                                                     left_df, R, k, fail_at - 1)])
               /\ UNCHANGED name_ranks
          ELSE IF merge_raises(mode, left_id, right_id)
          THEN \* line 142: the merge raises after the censoring and after
               \* get_rank_names
               /\ call' = ended("ValueError")
               /\ name_ranks' = Some(rank_names(left_df, RankLabels))
               /\ comparison_matrix' = scores_frame(compare_cl[1], candidate_pairs[1],
                                                    left_df, R, threshold, k)
          ELSE /\ call' = ended("no")
               /\ name_ranks' = Some(rank_names(left_df, RankLabels))
               /\ comparison_matrix' = linkage_frame(compare_cl[1], candidate_pairs[1],
                                                     left_df, R, threshold, k)
    /\ UNCHANGED <<mode, left_df, right_df, left_id, right_id, linkage_vars, compare_cl, candidate_pairs,
                   vars_call, pairs_call,
                   groupVars, splitVars, exportVars, linkVars, buildVars>>

(***************************************************************************)
(* The annotation files: save_files, save_pairs, load_pairs.               *)
(*                                                                         *)
(* A path is the tuple of its components.  A JSON file is modelled by the  *)
(* document it holds: the pair objects keep integers, strings and null     *)
(* (None) through json.dump and json.load.  The columns to export          *)
(* (left_cols, right_cols) are always given as ['primeiro_nome'].          *)
(***************************************************************************)
\* The batch size with which save_files calls format_annotation.
FormatBatch == 5000

Join(folder, name) == folder \o <<name>>

EnvPath == <<"env">>
OutPath == <<"out">>

\* f"PAIRS_{index}.json"
PairsFile(idx) ==
    <<"PAIRS_0.json", "PAIRS_1.json", "PAIRS_2.json", "PAIRS_3.json", "PAIRS_4.json",
      "PAIRS_5.json", "PAIRS_6.json", "PAIRS_7.json">>[idx + 1]

\* The sources of the object whose pairs are exported.
ExportLeft == <<Rec(<<1>>, Some(2), Some(0)), Rec(<<1, 2>>, NaN, Some(3)),
                Rec(<<1>>, Some(2), Some(0))>>
ExportRight == <<Rec(<<1, 2>>, NaN, Some(3)), Rec(<<1>>, Some(2), Some(0))>>

\* The pairs a caller exports.
PairUniverse == {<<2, 1>>, <<3, 2>>}

\* The lists of at most n pairs.
PairListsUpTo(n) == UNION {[1..m -> PairUniverse] : m \in 0..n}

\* The aggregate table a caller may supply: one row of scores per pair.
AggTable == [pr \in PairUniverse |-> [nome_sim |-> (ScoreOne \div 2) * pr[2]]]

\* The slices with one item too many.
batch_slices_overlapping(l, b) ==
    [x \in 1..((Len(l) + b - 1) \div b) |-> Slice(l, (x - 1) * b, (x - 1) * b + b + 1)]

\* [ l[x:x+b] for x in range(0, len(l), b) ]
batch_slices(l, b) ==
    [x \in 1..((Len(l) + b - 1) \div b) |-> Slice(l, (x - 1) * b, (x - 1) * b + b)]

\* df[cols].loc[id].to_dict()
record_of(df, id) == [primeiro_nome |-> df[id].primeiro_nome]

\* The frame the right-hand identifiers are looked up in.
right_records(L, R) == IF R /= None THEN R[1] ELSE L

\* format_annotation fails at agg[subindex] when agg is None and there is a
\* pair to format.
format_annotation_raises(ps, agg_df) == agg_df = None /\ ps /= <<>>

\* format_annotation with the count starting again in every batch.
format_annotation_restarting(ps, L, R, agg_df, batchsize) ==
    LET flat == Flatten(batch_slices(ps, batchsize))
    IN [n \in 1..Len(flat) |->
           [cod |-> ((n - 1) % batchsize) + 1,
            classification |-> "",
            a |-> record_of(L, flat[n][1]),
            b |-> record_of(right_records(L, R), flat[n][2]),
            identifiers |-> [a |-> flat[n][1], b |-> flat[n][2]],
            agg |-> Some(agg_df[1][flat[n]])]]

\* format_annotation: one object per pair, numbered over all batches.
format_annotation(ps, L, R, agg_df, batchsize) ==
    LET flat == Flatten(batch_slices(ps, batchsize))
    IN [n \in 1..Len(flat) |->
           [cod |-> n,
            classification |-> "",
            a |-> record_of(L, flat[n][1]),
            b |-> record_of(right_records(L, R), flat[n][2]),
            identifiers |-> [a |-> flat[n][1], b |-> flat[n][2]],
            agg |-> Some(agg_df[1][flat[n]])]]

\* create_json_pairs: one object per pair, the loop leaving after rec_max
\* pairs when rec_max is given.
create_json_pairs(L, R, ps, agg_df, classification, rec_max) ==
    LET kept == IF rec_max /= None /\ rec_max[1] >= 1 /\ rec_max[1] < Len(ps)
                THEN SubSeq(ps, 1, rec_max[1]) ELSE ps
    IN [n \in 1..Len(kept) |->
           [cod |-> n,
            classification |-> classification,
            a |-> record_of(L, kept[n][1]),
            b |-> record_of(right_records(L, R), kept[n][2]),
            identifiers |-> [a |-> kept[n][1], b |-> kept[n][2]],
            agg |-> IF agg_df = None THEN None ELSE Some(agg_df[1][kept[n]])]]

\* A file to write: its path and the document dumped into it.
Page(path, objs) == [path |-> path, doc |-> [pairs |-> objs]]

\* Paths(ws): the paths of a list of files to write, in the order written.
Paths(ws) == [x \in DOMAIN ws |-> ws[x].path]

\* open(path, "w") and json.dump for every element of ws: a file is created
\* or replaced; the other files are untouched.
write_files(fs, ws) ==
    [p \in (DOMAIN fs) \cup Range(Paths(ws)) |->
        IF p \in Range(Paths(ws))
        THEN ws[CHOOSE x \in DOMAIN ws : ws[x].path = p /\ \A y \in DOMAIN ws : ws[y].path = p => y <= x].doc
        ELSE fs[p]]

\* Lines 202-206: the files save_files writes, one per slice of json_list.
paginated(output, json_list, batchsize) ==
    LET batches == batch_slices(json_list, batchsize)
    IN [x \in DOMAIN batches |-> Page(Join(output, PairsFile(x - 1)), batches[x])]

\* Lines 254-270: the three files save_pairs writes.
classified(folder, L, R, pos, pot, neg, agg_df, negative_max) ==
    <<Page(Join(folder, "POSITIVE_PAIRS.json"),
           create_json_pairs(L, R, pos, agg_df, "positive", None)),
      Page(Join(folder, "POTENTIAL_PAIRS.json"),
           create_json_pairs(L, R, pot, agg_df, "potential", None)),
      Page(Join(folder, "NEGATIVE_PAIRS.json"),
           create_json_pairs(L, R, neg, agg_df, "negative", negative_max))>>

\* load_pairs reading the negative file in place of the potential one.
annotated_files_negative == <<"POSITIVE_PAIRS.json", "NEGATIVE_PAIRS.json">>

\* The files load_pairs reads, in this order.
annotated_files == <<"POSITIVE_PAIRS.json", "POTENTIAL_PAIRS.json">>

\* The table load_pairs builds from the pair objects it read.
pairs_table(objs) ==
    [n \in DOMAIN objs |->
        [left_id |-> objs[n].identifiers.a, right_id |-> objs[n].identifiers.b,
         classification |-> objs[n].classification]]

NoFiles == [p \in {} |-> <<>>]

\* What an earlier session of one save_pairs call and one save_files call
\* with batchsize 1 left under the folder.
EarlierFiles(md) ==
    LET R == IF md = "dedup" THEN None ELSE Some(ExportRight)
        ann == Join(EnvPath, "annotation_files")
    IN write_files(
           write_files(NoFiles,
                       classified(ann, ExportLeft, R, <<<<3, 2>>>>, <<>>, <<>>, None, None)),
           paginated(EnvPath,
                     format_annotation(<<<<3, 2>>, <<2, 1>>>>, ExportLeft, R,
                                       Some(AggTable), FormatBatch), 1))

ExportIdle ==
    /\ env_folder = None /\ dirs = {} /\ files = NoFiles /\ io_calls = <<>>
    /\ io_left = [export |-> 0, load |-> 0] /\ df_pairs = None

\* The folders after MatchingBase.__init__ (lines 55-57): env_folder exists
\* when it is given.  The folder is new, or it holds the files of an
\* earlier session.  The folder "out" exists.
ExportInit ==
    /\ env_folder \in {None, Some(EnvPath)}
    /\ \/ /\ dirs = {OutPath} \cup (IF env_folder = None THEN {} ELSE {EnvPath})
          /\ files = NoFiles
       \/ /\ env_folder /= None
          /\ dirs = {OutPath, EnvPath, Join(EnvPath, "annotation_files")}
          /\ files = EarlierFiles(mode)
    /\ io_calls = <<>>
    /\ io_left = [export |-> 1, load |-> 1]
    /\ df_pairs = None

\* The record of a call in io_calls.
IoCall(op, how, ps, pos, pot, neg, agg_df, overwrite, batchsize, negative_max, written) ==
    [op |-> op, raised |-> how, pairs |-> ps, positive |-> pos, potential |-> pot,
     negative |-> neg, agg_df |-> agg_df, overwrite |-> overwrite,
     batchsize |-> batchsize, negative_max |-> negative_max, written |-> written]

\* save_files(pairs, aggr_df, output_folder, left_cols, right_cols,
\* overwrite, batchsize), lines 185-206.
SaveFiles(ps, aggr_df, output_folder, overwrite, batchsize) ==
    /\ io_left.export > 0
    /\ io_left' = [io_left EXCEPT !.export = @ - 1]
    /\ LET ended(how, written) ==
               Append(io_calls, IoCall("save_files", how, ps, <<>>, <<>>, <<>>, aggr_df,
                                       overwrite, batchsize, None, written))
           output == IF env_folder /= None THEN env_folder[1] ELSE output_folder[1]
           R == right_df
       IN IF env_folder = None /\ output_folder = None
          THEN \* line 187
               /\ io_calls' = ended("Exception", <<>>)
               /\ UNCHANGED <<dirs, files>>
          ELSE \* lines 192-194: the folder is made before the flag is looked at
               /\ dirs' = dirs \cup {Join(output, "annotation_files")}
               /\ IF ~overwrite
                  THEN \* line 198
                       /\ io_calls' = ended("Exception", <<>>)
                       /\ UNCHANGED files
                  ELSE IF format_annotation_raises(ps, aggr_df)
                  THEN \* utils.py line 174: None is not subscriptable
                       /\ io_calls' = ended("TypeError", <<>>)
                       /\ UNCHANGED files
                  ELSE LET ws == paginated(output,
                                           format_annotation(ps, left_df, R, aggr_df, FormatBatch),
                                           batchsize)
                       IN /\ io_calls' = ended("no", Paths(ws))
                          /\ files' = write_files(files, ws)
    /\ UNCHANGED <<env_folder, df_pairs, groupVars, splitVars, matchVars, linkVars, buildVars>>

\* save_pairs(positive_pairs, potential_pairs, negative_pairs, left_cols,
\* right_cols, agg_df, overwrite, negative_max), lines 244-270.
SavePairs(pos, pot, neg, agg_df, overwrite, negative_max) ==
    /\ io_left.export > 0
    /\ io_left' = [io_left EXCEPT !.export = @ - 1]
    /\ LET ended(how, written) ==
               Append(io_calls, IoCall("save_pairs", how, <<>>, pos, pot, neg, agg_df,
                                       overwrite, 0, negative_max, written))
       IN IF env_folder = None
          THEN \* line 245
               /\ io_calls' = ended("Exception", <<>>)
               /\ UNCHANGED <<dirs, files>>
          ELSE \* lines 247-249: the folder is made before the flag is looked at
               /\ dirs' = dirs \cup {Join(env_folder[1], "annotation_files")}
               /\ IF ~overwrite
                  THEN \* line 251
                       /\ io_calls' = ended("Exception", <<>>)
                       /\ UNCHANGED files
                  ELSE LET ws == classified(Join(env_folder[1], "annotation_files"), left_df,
                                            right_df, pos, pot, neg, agg_df, negative_max)
                       IN /\ io_calls' = ended("no", Paths(ws))
                          /\ files' = write_files(files, ws)
    /\ UNCHANGED <<env_folder, df_pairs, groupVars, splitVars, matchVars, linkVars, buildVars>>

\* load_pairs(annotation_folder="annotation_files"), lines 277-295.
LoadPairs ==
    /\ io_left.load > 0
    /\ io_left' = [io_left EXCEPT !.load = @ - 1]
    /\ LET ended(how) ==
               Append(io_calls, IoCall("load_pairs", how, <<>>, <<>>, <<>>, <<>>, None,
                                       FALSE, 0, None, <<>>))
           folder == Join(env_folder[1], "annotation_files")
           read == [x \in DOMAIN annotated_files |-> Join(folder, annotated_files[x])]
       IN IF env_folder = None
          THEN \* os.path.join(None, ...) raises
               /\ io_calls' = ended("TypeError")
               /\ UNCHANGED df_pairs
          ELSE IF folder \notin dirs
          THEN \* line 279
               /\ io_calls' = ended("Exception")
               /\ UNCHANGED df_pairs
          ELSE IF \E x \in DOMAIN read : read[x] \notin DOMAIN files
          THEN \* open(..., "r") of a file that does not exist
               /\ io_calls' = ended("FileNotFoundError")
               /\ UNCHANGED df_pairs
          ELSE /\ io_calls' = ended("no")
               /\ df_pairs' = Some(pairs_table(Flatten([x \in DOMAIN read |-> files[read[x]].pairs])))
    /\ UNCHANGED <<env_folder, dirs, files, groupVars, splitVars, matchVars, linkVars, buildVars>>

(***************************************************************************)
(* linkage_grouping                                                        *)
(***************************************************************************)
\* The identifiers of the two sources in the confirmed pairs.
LeftIds == {1, 2}
RightIds == {1, 2, 3}

\* The worked example of the specification: (L1,R1), (L1,R2), (L1,R1).
ExampleLinks == <<<<1, 1>>, <<1, 2>>, <<1, 1>>>>

\* The inputs: every list of at most MaxLinks pairs.
LinkLists == UNION {[1..n -> LeftIds \X RightIds] : n \in 0..MaxLinks}

\* How many rows of the pair list are the pair e.
match_count(ps, e) == Cardinality({k \in DOMAIN ps : ps[k] = e})

\* The row of the first occurrence of the pair e.
first_row(ps, e) == Min({k \in DOMAIN ps : ps[k] = e})

\* The order with equal counts in the order of first occurrence.
comes_before_first_seen(ps, d, e) ==
    \/ d[1] < e[1]
    \/ /\ d[1] = e[1]
       /\ \/ match_count(ps, d) > match_count(ps, e)
          \/ match_count(ps, d) = match_count(ps, e) /\ first_row(ps, d) < first_row(ps, e)

\* The order of the index of groupby("left")["right"].value_counts(): the
\* groups by ascending left id; in a group the right ids by descending
\* count, equal counts by ascending right id.
comes_before(ps, d, e) ==
    \/ d[1] < e[1]
    \/ /\ d[1] = e[1]
       /\ \/ match_count(ps, d) > match_count(ps, e)
          \/ match_count(ps, d) = match_count(ps, e) /\ d[2] < e[2]

\* Line 322: the distinct pairs in the order of the value counts.
value_counts_index(ps) ==
    LET E == Range(ps)
    IN [n \in 1..Cardinality(E) |->
           CHOOSE e \in E : Cardinality({d \in E : comes_before(ps, d, e)}) = n - 1]

\* The append that also gives k the other right ids of every left id that
\* already lists v.
setdefault_append_closing(res, k, v) ==
    LET own == IF k \in DOMAIN res THEN res[k] ELSE <<>>
        others == {x \in (DOMAIN res) \ {k} : v \in Range(res[x])}
        extra == UNION {Range(res[x]) : x \in others} \ ({v} \cup Range(own))
    IN [x \in (DOMAIN res) \cup {k} |->
           IF x = k THEN own \o <<v>> \o SortedSeq(extra) ELSE res[x]]

\* Line 325: result.setdefault(k, []).append(v)
setdefault_append(res, k, v) ==
    IF k \in DOMAIN res THEN [res EXCEPT ![k] = Append(@, v)]
    ELSE [x \in (DOMAIN res) \cup {k} |-> IF x = k THEN <<v>> ELSE res[x]]

LinkIdle ==
    /\ l_pc = "idle" /\ l_pairs = <<>> /\ pairs_t = <<>> /\ l_i = 0 /\ result = <<>>

LinkInit ==
    /\ l_pc = "start"
    /\ l_pairs \in LinkLists
    /\ pairs_t = <<>>
    /\ l_i = 0
    /\ result = <<>>

\* Lines 322-323: the value counts and the empty result.
LinkStart ==
    /\ l_pc = "start"
    /\ pairs_t' = value_counts_index(l_pairs)
    /\ l_pc' = "loop"
    /\ UNCHANGED <<l_pairs, l_i, result, groupVars, splitVars, matchVars, exportVars, buildVars>>

\* Lines 324-325: one iteration of the loop over pairs_t.
LinkAppend ==
    /\ l_pc = "loop"
    /\ l_i < Len(pairs_t)
    /\ result' = setdefault_append(result, pairs_t[l_i + 1][1], pairs_t[l_i + 1][2])
    /\ l_i' = l_i + 1
    /\ UNCHANGED <<l_pc, l_pairs, pairs_t, groupVars, splitVars, matchVars, exportVars, buildVars>>

\* Line 326: return result.
LinkReturn ==
    /\ l_pc = "loop"
    /\ l_i = Len(pairs_t)
    /\ l_pc' = "done"
    /\ UNCHANGED <<l_pairs, pairs_t, l_i, result, groupVars, splitVars, matchVars, exportVars, buildVars>>

(***************************************************************************)
(* The construction of the objects and the writes to their guarded         *)
(* attributes: MatchingBase.__init__, the comparison_matrix property and   *)
(* export_comparison_matrix; ProcessBase.__init__, its raw_data and data   *)
(* properties, basic_standardize and the specific_standardize of its       *)
(* subclasses.                                                             *)
(*                                                                         *)
(* A frame given to a constructor is its set of column names and its rows. *)
(* The frame self._data of a ProcessBase object is the list of its column  *)
(* names, in column order, and its number of rows; the values of its cells *)
(* are not modelled.  The identifier column holds a different value in     *)
(* every row, so the left merges on it keep the number of rows.            *)
(* The variables of an object describe the object the caller holds: a      *)
(* constructor that raises returns no object, and the variables stay at    *)
(* their values of before the call.                                        *)
(***************************************************************************)
Frame(columns, rows) == [columns |-> columns, rows |-> rows]

\* The frames given to the matcher's constructor as left_df and right_df:
\* with the identifier column "id", "cpf" or none.
LeftInputs == {Frame(RecordColumns \cup {"id"}, ExportLeft),
               Frame(RecordColumns \cup {"id"}, <<>>),
               Frame(RecordColumns, ExportLeft)}
RightInputs == {Frame(RecordColumns \cup {"id"}, ExportRight),
                Frame(RecordColumns \cup {"cpf"}, ExportRight),
                Frame(RecordColumns, ExportRight)}

\* The values given as left_id and right_id.
IdNames == {None, Some("id"), Some("cpf")}

\* self.base_fields of ProcessBase.
base_fields == {"NOME_PACIENTE", "DATA_NASCIMENTO", "NOME_MAE"}

\* The columns of raw_data that the specific_standardize methods read.
specific_fields == {"SEXO", "CPF", "CNS", "BAIRRO_RESIDENCIA", "CEP"}

\* The frames given to ProcessBase as raw_data: with every essential field,
\* without the mother's name, without the identifier column, without rows,
\* and with the fields of the specific databases too.
RawInputs == {Frame(base_fields \cup {"id"}, 2),
              Frame({"NOME_PACIENTE", "DATA_NASCIMENTO", "id"}, 2),
              Frame(base_fields, 2),
              Frame(base_fields \cup {"id"}, 0),
              Frame(base_fields \cup specific_fields \cup {"id", "ID_SIVEP"}, 2)}

\* ProcessBase and its subclasses of sus_specific.py.
ProcessClasses == {"ProcessBase", "ProcessSinan", "ProcessSivep", "ProcessDB"}

\* The test of lines 42 and 50 on one side.
id_missing(df, id) == id = None \/ id[1] \notin df.columns

\* __init__ testing the left side only.
init_raises_left_only(left, lid, right, rid) == id_missing(left, lid)

\* MatchingBase.__init__ raises at line 43 or at line 51.
init_raises(left, lid, right, rid) ==
    \/ id_missing(left, lid)
    \/ right /= None /\ id_missing(right[1], rid)

\* How ProcessBase.__init__ ends: raw_data[[field_id]] of line 23 raises
\* KeyError for a name that is no column, and line 27 raises when an
\* essential field is missing.
process_init_raises(raw, fid) ==
    IF fid = None \/ fid[1] \notin raw.columns THEN "KeyError"
    ELSE IF ~(base_fields \subseteq raw.columns) THEN "Exception"
    ELSE "no"

\* df[name] = ... for every name of new: a column that exists keeps its
\* place, a new one is added at the end.
assign_columns(columns, new) ==
    columns \o SelectSeq(new, LAMBDA c : c \notin Range(columns))

\* The columns basic_standardize assigns at lines 53-68, in this order.
BasicColumns ==
    <<"NOME_PACIENTE", "NOME_MAE", "DATA_NASCIMENTO", "primeiro_nome", "complemento_nome",
      "primeiro_nome_mae", "complemento_nome_mae", "nascimento_dia", "nascimento_mes",
      "nascimento_ano", "FONETICA_N">>

\* The columns the two merges of lines 91-92 add.
MergedRankColumns ==
    <<"norm_primeiro_nome", "rank_primeiro_nome",
      "norm_primeiro_nome_mae", "rank_primeiro_nome_mae">>

\* The columns of self.freq_names (line 85).
FreqColumns ==
    <<"primeiro_nome", "norm_primeiro_nome", "rank_primeiro_nome",
      "primeiro_nome_mae", "norm_primeiro_nome_mae", "rank_primeiro_nome_mae">>

\* basic_standardize, lines 53-92: self._data afterwards.  The rank columns
\* are merged only when neither norm column is there yet (line 90).
basic_standardize(d) ==
    LET assigned == assign_columns(d.columns, BasicColumns)
    IN Frame(IF "norm_primeiro_nome" \notin Range(assigned)
                /\ "norm_primeiro_nome_mae" \notin Range(assigned)
             THEN assigned \o MergedRankColumns
             ELSE assigned,
             d.rows)

\* The column of raw_data that a specific_standardize makes the index of
\* the columns it reads: self.field_id, or its argument field_id in
\* ProcessSivep (sus_specific.py lines 27-31).
specific_index(cls, fid, arg) == IF cls = "ProcessSivep" THEN arg ELSE fid

\* set_index(...)[...] raises KeyError when the index column or one of the
\* columns read is no column of raw_data; ProcessBase reads nothing.
specific_raises(cls, raw, fid, arg) ==
    /\ cls /= "ProcessBase"
    /\ \/ specific_index(cls, fid, arg) \notin raw.columns
       \/ ~(specific_fields \subseteq raw.columns)

\* The order in which the columns are merged into self._data
\* (sus_specific.py lines 16, 33, 50).
specific_order(cls) ==
    IF cls = "ProcessSinan" THEN <<"SEXO", "CNS", "CPF", "BAIRRO_RESIDENCIA", "CEP">>
    ELSE <<"SEXO", "CPF", "CNS", "BAIRRO_RESIDENCIA", "CEP">>

\* The rename of lines 20, 37 and 54.
renamed(c) ==
    IF c = "SEXO" THEN "sexo"
    ELSE IF c = "CPF" THEN "cpf"
    ELSE IF c = "CNS" THEN "cns"
    ELSE IF c = "BAIRRO_RESIDENCIA" THEN "bairro"
    ELSE IF c = "CEP" THEN "cep"
    ELSE c

\* specific_standardize: self._data after the merges and the rename.  A
\* merge adds its column also when a column of the same name is there.
specific_standardize(cls, d) ==
    IF cls = "ProcessBase" THEN d
    ELSE LET merged == d.columns \o specific_order(cls)
         IN Frame([c \in DOMAIN merged |-> renamed(merged[c])], d.rows)

\* A setter that stores the value it is given.
fset_stores_value(stored, x) == [raised |-> "no", stored |-> x]

\* obj.comparison_matrix = x: the setter of line 68 takes self only, so the
\* call fset(obj, x) made by the property raises TypeError before its body
\* runs.
fset_comparison_matrix(stored, x) == [raised |-> "TypeError", stored |-> stored]

\* obj.raw_data = x and obj.data = x: lines 35 and 43.
fset_raw_data(stored, x) == [raised |-> "Exception", stored |-> stored]
fset_data(stored, x) == [raised |-> "Exception", stored |-> stored]

\* f"{fname}.parquet"
ParquetFile(fname) == [matrix |-> "matrix.parquet"][fname]

\* How export_comparison_matrix may end (matching_base.py lines 159-160).
\* None is skipped; a list has no to_parquet; the folder must exist.  A
\* matrix whose two index levels carry one name is written or refused,
\* depending on the Parquet engine.
parquet_outcomes(matrix, folder, existing, lid, rid) ==
    IF matrix = [kind |-> "none"] THEN {"skipped"}
    ELSE IF matrix.kind = "list" THEN {"AttributeError"}
    ELSE IF folder \notin existing THEN {"FileNotFoundError"}
    ELSE IF lid = rid THEN {"written", "ValueError"}
    ELSE {"written"}

NoInitCall == [op |-> "none", left |-> None, left_id |-> None, right |-> None,
               right_id |-> None, env_folder |-> None, raised |-> "no"]

NoProcessCall == [op |-> "none", cls |-> "none", raw_data |-> None, field_id |-> None,
                  raised |-> "no"]

NoStdCall == [op |-> "none", raised |-> "no", n |-> 0]

NoWrite == [attr |-> "none", value |-> None, raised |-> "no"]

\* No object is built and no guarded attribute was written.
BuildIdle ==
    /\ init_call = NoInitCall /\ p_call = NoProcessCall /\ write = NoWrite
    /\ field_id = None /\ raw_data = None /\ data = None /\ freq_names = None
    /\ std_call = NoStdCall

\* Deduple(left_df, left_id=..., env_folder=...) or PLinkage(left_df,
\* right_df, left_id, right_id, env_folder): MatchingBase.__init__, lines
\* 34-57.  The identifier column holds the row numbers.
NewMatcher(cls, left, lid, right, rid, env) ==
    /\ init_call.op = "none"
    /\ LET ended(how) == [op |-> "__init__", left |-> Some(left), left_id |-> lid,
                          right |-> right, right_id |-> rid, env_folder |-> env,
                          raised |-> how]
       IN IF init_raises(left, lid, right, rid)
          THEN \* lines 43, 51: nothing is returned and no folder is made
               /\ init_call' = ended("Exception")
               /\ UNCHANGED <<mode, left_df, right_df, left_id, right_id, env_folder, dirs>>
          ELSE /\ init_call' = ended("no")
               /\ mode' = cls
               /\ left_df' = left.rows
               /\ left_id' = lid
               /\ right_df' = (IF right = None THEN None ELSE Some(right[1].rows))
               /\ right_id' = (IF right = None THEN None ELSE rid)
               /\ env_folder' = env
               /\ dirs' = (IF env = None THEN dirs ELSE dirs \cup {env[1]})
    /\ linkage_vars' = None
    /\ candidate_pairs' = None
    /\ name_ranks' = None
    /\ compare_cl' = None
    /\ comparison_matrix' = NoMatrix
    /\ UNCHANGED <<vars_call, call, pairs_call, calls_left, files, io_calls,
                   io_left, df_pairs,
                   field_id, raw_data, data, freq_names, p_call, std_call, write,
                   groupVars, splitVars, linkVars>>

\* export_comparison_matrix(env_folder, fname), lines 159-160.
ExportComparisonMatrix(folder, fname) ==
    /\ mode /= "idle"
    /\ io_left.export > 0
    /\ io_left' = [io_left EXCEPT !.export = @ - 1]
    /\ \E how \in parquet_outcomes(comparison_matrix, folder, dirs, left_id, right_id) :
           LET ws == IF how = "written"
                     THEN <<[path |-> Join(folder, ParquetFile(fname)),
                             doc |-> comparison_matrix]>>
                     ELSE <<>>
           IN /\ io_calls' = Append(io_calls,
                                    IoCall("export_comparison_matrix",
                                           IF how \in {"written", "skipped"} THEN "no" ELSE how,
                                           <<>>, <<>>, <<>>, <<>>, None, FALSE, 0, None,
                                           Paths(ws)))
              /\ files' = write_files(files, ws)
    /\ UNCHANGED <<env_folder, dirs, df_pairs, groupVars, splitVars, matchVars, linkVars,
                   buildVars>>

\* cls(raw_data, field_id) for ProcessBase or one of its subclasses, which
\* define no __init__ of their own: base.py lines 20-27.
NewProcessBase(cls, raw, fid) ==
    /\ p_call.op = "none"
    /\ LET how == process_init_raises(raw, fid)
       IN /\ p_call' = [op |-> "__init__", cls |-> cls, raw_data |-> Some(raw),
                        field_id |-> fid, raised |-> how]
          /\ IF how = "no"
             THEN /\ field_id' = fid
                  /\ raw_data' = Some(raw)
                  /\ data' = Some(Frame(<<fid[1]>>, raw.rows))
             ELSE UNCHANGED <<field_id, raw_data, data>>
    /\ UNCHANGED <<init_call, freq_names, std_call, write,
                   groupVars, splitVars, matchVars, exportVars, linkVars>>

\* process.basic_standardize(), base.py lines 53-94.  freq_names has one
\* row per distinct first name, of the patients or of the mothers,
\* whichever are more: names are the number of these rows.
BasicStandardize(names) ==
    /\ data /= None
    /\ std_call.n < MaxStandardize
    /\ names <= data[1].rows
    /\ std_call' = [op |-> "basic_standardize", raised |-> "no", n |-> std_call.n + 1]
    /\ data' = Some(basic_standardize(data[1]))
    /\ freq_names' = Some(Frame(FreqColumns, names))
    /\ UNCHANGED <<init_call, field_id, raw_data, p_call, write,
                   groupVars, splitVars, matchVars, exportVars, linkVars>>

\* process.specific_standardize(), or specific_standardize(field_id=arg) of
\* ProcessSivep: base.py line 97, sus_specific.py lines 9-54.
SpecificStandardize(arg) ==
    /\ data /= None
    /\ std_call.n < MaxStandardize
    /\ IF specific_raises(p_call.cls, raw_data[1], field_id[1], arg)
       THEN \* the columns are read before the first merge
            /\ std_call' = [op |-> "specific_standardize", raised |-> "KeyError",
                            n |-> std_call.n + 1]
            /\ UNCHANGED data
       ELSE /\ std_call' = [op |-> "specific_standardize", raised |-> "no",
                            n |-> std_call.n + 1]
            /\ data' = Some(specific_standardize(p_call.cls, data[1]))
    /\ UNCHANGED <<init_call, field_id, raw_data, freq_names, p_call, write,
                   groupVars, splitVars, matchVars, exportVars, linkVars>>

\* matcher.comparison_matrix = x
AssignComparisonMatrix(x) ==
    /\ mode /= "idle"
    /\ LET r == fset_comparison_matrix(comparison_matrix, x)
       IN /\ write' = [attr |-> "comparison_matrix", value |-> Some(x), raised |-> r.raised]
          /\ comparison_matrix' = r.stored
    /\ UNCHANGED <<mode, left_df, right_df, left_id, right_id, linkage_vars, compare_cl,
                   candidate_pairs, name_ranks, vars_call, call, pairs_call,
                   calls_left,
                   init_call, field_id, raw_data, data, freq_names, p_call, std_call,
                   groupVars, splitVars, exportVars, linkVars>>

\* process.raw_data = x
AssignRawData(x) ==
    /\ raw_data /= None
    /\ LET r == fset_raw_data(raw_data, Some(x))
       IN /\ write' = [attr |-> "raw_data", value |-> Some(x), raised |-> r.raised]
          /\ raw_data' = r.stored
    /\ UNCHANGED <<init_call, field_id, data, freq_names, p_call, std_call,
                   groupVars, splitVars, matchVars, exportVars, linkVars>>

\* process.data = x
AssignData(x) ==
    /\ data /= None
    /\ LET r == fset_data(data, Some(x))
       IN /\ write' = [attr |-> "data", value |-> Some(x), raised |-> r.raised]
          /\ data' = r.stored
    /\ UNCHANGED <<init_call, field_id, raw_data, freq_names, p_call, std_call,
                   groupVars, splitVars, matchVars, exportVars, linkVars>>

(***************************************************************************)
(* Specifications.                                                         *)
(***************************************************************************)
InitGroup == GroupInit /\ SplitIdle /\ MatchIdle /\ ExportIdle /\ LinkIdle /\ BuildIdle
NextGroup == GroupStart \/ GroupUnion \/ GroupCollect
SpecGroup == InitGroup /\ [][NextGroup]_vars

InitSplit == SplitInit /\ GroupIdle /\ MatchIdle /\ ExportIdle /\ LinkIdle /\ BuildIdle
NextSplit == SplitStep \/ SplitReturn
SpecSplit == InitSplit /\ [][NextSplit]_vars

\* A matcher on which the rules are set, by either method, the pairs are
\* defined and perform_linkage is called once.
InitMatch ==
    /\ MatchInit /\ calls_left = 1
    /\ GroupIdle /\ SplitIdle /\ ExportIdle /\ LinkIdle /\ BuildIdle
NextMatch ==
    \/ \E lv \in RuleLists : SetLinkageVariables(lv, DefaultMethod)
    \/ \E compare_rules \in OldRuleDicts : SetLinkageOld(compare_rules, DefaultMethod)
    \/ \E window \in Windows : DefinePairs(window)
    \/ \E threshold \in Thresholds : \E k \in 0..MaxBlocks : \E fail_at \in 0..2 :
           PerformLinkage(threshold, k, fail_at)
SpecMatch == InitMatch /\ [][NextMatch]_vars

\* The same object and the same calls, with get_rank_names called by the
\* user and perform_linkage called twice without a threshold, on sources of
\* at most MaxRecallRec records.
InitRecall ==
    /\ MatchInit
    /\ Len(left_df) <= MaxRecallRec
    /\ calls_left = 2
    /\ GroupIdle
    /\ SplitIdle
    /\ ExportIdle
    /\ LinkIdle
    /\ BuildIdle
NextRecall ==
    \/ \E lv \in RuleLists : SetLinkageVariables(lv, DefaultMethod)
    \/ \E compare_rules \in OldRuleDicts : SetLinkageOld(compare_rules, DefaultMethod)
    \/ GetRankNames(<<"rank_primeiro_nome">>)
    \/ \E window \in Windows : DefinePairs(window)
    \/ \E k \in 0..2 : \E fail_at \in 0..1 : PerformLinkage(None, k, fail_at)
SpecRecall == InitRecall /\ [][NextRecall]_vars

\* A matcher object over the sources ExportLeft and ExportRight, on which
\* only the export and load calls are made.
InitExport ==
    /\ MatchInit
    /\ left_df = ExportLeft
    /\ (mode = "link" => right_df = Some(ExportRight))
    /\ calls_left = 0
    /\ ExportInit
    /\ GroupIdle
    /\ SplitIdle
    /\ LinkIdle
    /\ BuildIdle
NextExport ==
    \/ /\ io_left.export > 0
       /\ \E ps \in PairListsUpTo(MaxExport) : \E aggr_df \in {None, Some(AggTable)} :
          \E output_folder \in {None, Some(OutPath)} : \E overwrite \in BOOLEAN :
          \E batchsize \in 1..MaxBatch :
              SaveFiles(ps, aggr_df, output_folder, overwrite, batchsize)
    \/ /\ io_left.export > 0
       /\ \E pos \in PairListsUpTo(MaxClassified) : \E pot \in PairListsUpTo(MaxClassified) :
          \E neg \in PairListsUpTo(MaxClassified) : \E agg_df \in {None, Some(AggTable)} :
          \E overwrite \in BOOLEAN : \E negative_max \in {None, Some(0), Some(1)} :
              SavePairs(pos, pot, neg, agg_df, overwrite, negative_max)
    \/ LoadPairs
SpecExport == InitExport /\ [][NextExport]_vars

InitLink == LinkInit /\ GroupIdle /\ SplitIdle /\ MatchIdle /\ ExportIdle /\ BuildIdle
NextLink == LinkStart \/ LinkAppend \/ LinkReturn
SpecLink == InitLink /\ [][NextLink]_vars

\* A run that builds one object and uses it.  Either it constructs a
\* matcher, makes the calls of the matching pipeline on it, writes its
\* matrix to a Parquet file and assigns to its guarded attribute; or it
\* constructs a ProcessBase object, standardizes it and assigns to its
\* guarded attributes.  A run whose matcher constructor raised may go on to
\* call the constructor of ProcessBase, and ends there.  The working folder
\* may exist already.
InitBuild ==
    /\ NoObject
    /\ calls_left = 1
    /\ BuildIdle
    /\ env_folder = None
    /\ dirs \in {{}, {EnvPath}}
    /\ files = NoFiles
    /\ io_calls = <<>>
    /\ io_left = [export |-> 1, load |-> 0]
    /\ df_pairs = None
    /\ GroupIdle
    /\ SplitIdle
    /\ LinkIdle
NextBuild ==
    \/ /\ init_call.op = "none" /\ p_call.op = "none"
       /\ \E left \in LeftInputs : \E lid \in IdNames : \E env \in {None, Some(EnvPath)} :
              \/ NewMatcher("dedup", left, lid, None, None, env)
              \/ \E right \in RightInputs : \E rid \in IdNames :
                     NewMatcher("link", left, lid, Some(right), rid, env)
    \/ /\ init_call.op = "none" \/ init_call.raised /= "no"
       /\ \E cls \in ProcessClasses : \E raw \in RawInputs : \E fid \in IdNames :
              NewProcessBase(cls, raw, fid)
    \/ \E lv \in RuleLists : \E string_method \in StringMethods :
           SetLinkageVariables(lv, string_method)
    \/ \E compare_rules \in OldRuleDicts : SetLinkageOld(compare_rules, DefaultMethod)
    \/ \E rank_colnames \in RankColnames : GetRankNames(rank_colnames)
    \/ DefinePairs(3)
    \/ \E threshold \in {None, Some(ScoreOne)} : \E k \in 0..2 : \E fail_at \in 0..1 :
           PerformLinkage(threshold, k, fail_at)
    \/ \E folder \in {EnvPath, OutPath} : ExportComparisonMatrix(folder, "matrix")
    \/ init_call.op = "none" /\ \E names \in 0..2 : BasicStandardize(names)
    \/ init_call.op = "none" /\ \E arg \in {"ID_SIVEP", "id"} : SpecificStandardize(arg)
    \/ \E x \in {NoMatrix, [kind |-> "list", parts |-> <<>>]} : AssignComparisonMatrix(x)
    \/ init_call.op = "none" /\ \E x \in RawInputs : AssignRawData(x)
    \/ init_call.op = "none" /\ \E x \in RawInputs : AssignData(x)
SpecBuild == InitBuild /\ [][NextBuild]_vars

(***************************************************************************)
(* Definitions used to state the properties of deduple_grouping.           *)
(***************************************************************************)
\* Every identifier of the pair list.
AllIds(ps) == {ps[k][1] : k \in DOMAIN ps} \cup {ps[k][2] : k \in DOMAIN ps}

\* The identifiers that some pair joins to a different identifier.
LinkedIds(ps) == UNION {{ps[k][1], ps[k][2]} : k \in {j \in DOMAIN ps : ps[j][1] /= ps[j][2]}}

\* The undirected graph of the confirmed pairs.
Edges(ps) == {<<ps[k][1], ps[k][2]>> : k \in DOMAIN ps} \cup {<<ps[k][2], ps[k][1]>> : k \in DOMAIN ps}

RECURSIVE ReachFrom(_, _)
ReachFrom(S, ps) ==
    LET N == S \cup {e[2] : e \in {d \in Edges(ps) : d[1] \in S}}
    IN IF N = S THEN S ELSE ReachFrom(N, ps)

\* x and y are joined by a path of confirmed pairs.
Connected(x, y, ps) == y \in ReachFrom({x}, ps)

\* A mapping read as clusters: each key together with its members.
Clusters(m) == {{k} \cup Range(m[k]) : k \in DOMAIN m}

SameCluster(m, x, y) == \E c \in Clusters(m) : x \in c /\ y \in c

Disjoint(C) == \A a \in C : \A b \in C : a /= b => a \cap b = {}

\* The number of elements of the tree of root r in the forest p.
TreeSize(p, r) == Cardinality({k \in DOMAIN p : find_root(k, p) = r})

\* The pair list seq reordered by the permutation f of its positions.
Reorder(ps, f) == [k \in DOMAIN ps |-> ps[f[k]]]

(***************************************************************************)
(* C1 as stated: the clusters partition the set of all identifiers that    *)
(* appear in a confirmed pair, and two identifiers share a cluster if and  *)
(* only if a path of confirmed pairs connects them.                        *)
(***************************************************************************)
C1_AsStated ==
    g_pc = "done" =>
        /\ UNION Clusters(matched_records) = AllIds(pairs)
        /\ Disjoint(Clusters(matched_records))
        /\ \A x \in AllIds(pairs) : \A y \in AllIds(pairs) :
               SameCluster(matched_records, x, y) <=> Connected(x, y, pairs)

(***************************************************************************)
(* C1 amended: the clusters partition the set of identifiers that some     *)
(* confirmed pair joins to a different identifier (an identifier that      *)
(* appears only in pairs with itself is in no cluster), and two different  *)
(* identifiers share a cluster if and only if a path of confirmed pairs    *)
(* connects them.                                                          *)
(***************************************************************************)
C1_Partition ==
    g_pc = "done" =>
        /\ UNION Clusters(matched_records) = LinkedIds(pairs)
        /\ Disjoint(Clusters(matched_records))
        /\ \A x \in AllIds(pairs) : \A y \in AllIds(pairs) \ {x} :
               SameCluster(matched_records, x, y) <=> Connected(x, y, pairs)

\* A chain of three pairs over four identifiers has ended in one cluster.
C1_Witness ==
    /\ g_pc = "done"
    /\ Len(pairs) = 3
    /\ Cardinality(AllIds(pairs)) = 4
    /\ \A x \in AllIds(pairs) : \A y \in AllIds(pairs) : Connected(x, y, pairs)
    /\ Clusters(matched_records) = {AllIds(pairs)}

(***************************************************************************)
(* C2: every reordering of the pair list gives the same partition of the   *)
(* identifiers into clusters as the order that was processed.              *)
(***************************************************************************)
C2_OrderIndependent ==
    g_pc = "done" =>
        \A f \in Permutations(DOMAIN pairs) :
            Clusters(deduple_grouping(Reorder(pairs, f))) = Clusters(matched_records)

\* Some reordering of a processed list changes the root of a cluster while
\* the partition stays the same.
C2_Witness ==
    /\ g_pc = "done"
    /\ Len(pairs) >= 2
    /\ \E f \in Permutations(DOMAIN pairs) :
           /\ DOMAIN deduple_grouping(Reorder(pairs, f)) /= DOMAIN matched_records
           /\ Clusters(deduple_grouping(Reorder(pairs, f))) = Clusters(matched_records)

(***************************************************************************)
(* C3: in a loop iteration on a pair whose roots differ, the root of the   *)
(* strictly larger tree absorbs the other root, on equal sizes the root of *)
(* the left element stays root and the right root becomes its child, and   *)
(* the absorbing root counts both trees; nothing else in the forest        *)
(* changes.  The list [(1,2),(2,3),(4,5)] yields {1: [2,3], 4: [5]}.       *)
(***************************************************************************)
UnionRule ==
    (g_pc = "loop" /\ index' = index + 1) =>
        LET pr == pairs[index + 1]
            lr == find_root(ptr_index(unique_nots, pr[1]), ptr)
            rr == find_root(ptr_index(unique_nots, pr[2]), ptr)
            ls == TreeSize(ptr, lr)
            rs == TreeSize(ptr, rr)
            win == IF rs > ls THEN rr ELSE lr
            lose == IF rs > ls THEN lr ELSE rr
        IN IF lr = rr THEN ptr' = ptr
           ELSE /\ ptr'[lose] = win
                /\ ptr'[win] = -(ls + rs)
                /\ \A k \in DOMAIN ptr \ {win, lose} : ptr'[k] = ptr[k]

ExampleClusters == (1 :> <<2, 3>>) @@ (4 :> <<5>>)

\* C3: every loop iteration follows the union rule, and the example list
\* yields the example clusters.
C3_UnionBySize ==
    /\ [][UnionRule]_vars
    /\ [](g_pc = "done" /\ pairs = ExamplePairs => matched_records = ExampleClusters)

\* The example list has been grouped.
C3_Witness ==
    /\ g_pc = "done"
    /\ pairs = ExamplePairs
    /\ matched_records = ExampleClusters

(***************************************************************************)
(* C4: in the returned mapping every key is the final root of its cluster, *)
(* no key is in a member list, and every identifier whose final root       *)
(* differs from itself occurs exactly once over all member lists, in the   *)
(* list of its root.                                                       *)
(***************************************************************************)
RootId(id) == unique_nots[find_root(ptr_index(unique_nots, id), ptr) + 1]

Occurrences(m, id) == {<<k, j>> \in (DOMAIN m) \X (1..Len(unique_nots)) :
                           j \in DOMAIN m[k] /\ m[k][j] = id}

\* C4: keys are final roots and never members; every other identifier is
\* listed exactly once, under its root.
C4_KeysAreRoots ==
    g_pc = "done" =>
        /\ \A k \in DOMAIN matched_records :
               /\ k \in Range(unique_nots)
               /\ RootId(k) = k
               /\ ptr[ptr_index(unique_nots, k)] < 0
               /\ \A k2 \in DOMAIN matched_records : k \notin Range(matched_records[k2])
        /\ \A id \in Range(unique_nots) :
               IF RootId(id) = id
               THEN Occurrences(matched_records, id) = {}
               ELSE /\ Cardinality(Occurrences(matched_records, id)) = 1
                    /\ \A o \in Occurrences(matched_records, id) : o[1] = RootId(id)

\* Two clusters were returned, one of them with two members.
C4_Witness ==
    /\ g_pc = "done"
    /\ Cardinality(DOMAIN matched_records) = 2
    /\ \E k \in DOMAIN matched_records : Len(matched_records[k]) = 2

(***************************************************************************)
(* C5: split_list returns exactly nparts contiguous slices whose           *)
(* concatenation is the list; the first (N mod k) slices hold N div k + 1  *)
(* items and the others N div k, so the sizes differ by at most one; ten   *)
(* items in three parts have the sizes 4, 3, 3.                            *)
(***************************************************************************)
Sizes(ss) == [k \in DOMAIN ss |-> Len(ss[k])]

\* C5: nparts contiguous slices, the longer ones first, that concatenate to
\* the list.
C5_SplitList ==
    s_pc = "done" =>
        /\ Len(s_out) = nparts
        /\ Flatten(s_out) = lst
        /\ \A a \in DOMAIN s_out : \A b \in DOMAIN s_out :
               /\ Len(s_out[a]) - Len(s_out[b]) <= 1
               /\ (a < b => Len(s_out[a]) >= Len(s_out[b]))
        /\ Cardinality({a \in DOMAIN s_out : Len(s_out[a]) = (Len(lst) \div nparts) + 1})
               = Len(lst) % nparts
        /\ (Len(lst) = 10 /\ nparts = 3 => Sizes(s_out) = <<4, 3, 3>>)

\* Ten items were split in three parts.
C5_Witness ==
    /\ s_pc = "done"
    /\ Len(lst) = 10
    /\ nparts = 3
    /\ Sizes(s_out) = <<4, 3, 3>>

(***************************************************************************)
(* Definitions used to state the properties of perform_linkage.            *)
(***************************************************************************)
\* perform_linkage was called, did not raise, and computed a matrix.
Produced ==
    /\ call.op = "perform_linkage"
    /\ call.raised = "no"
    /\ comparison_matrix.kind = "frame"

\* perform_linkage compared the pairs and censored the scores, and raised at
\* the merge of the rank columns.
MergeFailed ==
    /\ call.op = "perform_linkage"
    /\ call.raised = "ValueError"
    /\ comparison_matrix.kind = "frame"

\* perform_linkage compared every batch and censored the scores.
Compared == Produced \/ MergeFailed

\* The raw score of rule column c of a matrix row: the feature applied to
\* the two records of the row's pair.
RawScore(row, c) ==
    feature_score(compare_cl[1][c], left_df[row.pair[1]],
                  other_df(mode, left_df, right_df)[row.pair[2]])

RuleColumns == 1..Len(compare_cl[1])

MatrixRows == Range(comparison_matrix.rows)

(***************************************************************************)
(* C6 as stated: with any threshold t that is not None every rule score is *)
(* the raw score when it is >= t and 0.0 when it is < t, none is negative; *)
(* with threshold None every score is the raw score.                       *)
(***************************************************************************)
C6_AsStated ==
    Compared =>
        \A row \in MatrixRows : \A c \in RuleColumns :
            /\ row.vals[c] >= 0
            /\ row.vals[c] = IF call.threshold /= None /\ RawScore(row, c) < call.threshold[1]
                             THEN 0 ELSE RawScore(row, c)

(***************************************************************************)
(* C6 amended: with a threshold t that is not None and is at most 1.0      *)
(* every rule score is the raw score when it is >= t and 0.0 when it is    *)
(* < t; with threshold None, or a threshold above 1.0, every score is the  *)
(* raw score; no score is negative.                                        *)
(***************************************************************************)
C6_Censoring ==
    Compared =>
        \A row \in MatrixRows : \A c \in RuleColumns :
            /\ row.vals[c] >= 0
            /\ row.vals[c] = IF /\ call.threshold /= None
                                /\ call.threshold[1] <= ScoreOne
                                /\ RawScore(row, c) < call.threshold[1]
                             THEN 0 ELSE RawScore(row, c)

\* With threshold 1.0 a raw score of 0.5 was set to 0.0 and a raw score of
\* 1.0 was kept.
C6_Witness ==
    /\ Produced
    /\ call.threshold = Some(ScoreOne)
    /\ \E row \in MatrixRows : \E c \in RuleColumns :
           RawScore(row, c) = ScoreOne \div 2 /\ row.vals[c] = 0
    /\ \E row \in MatrixRows : \E c \in RuleColumns :
           RawScore(row, c) = ScoreOne /\ row.vals[c] = ScoreOne

(***************************************************************************)
(* C7: when a batched perform_linkage (number_of_blocks > 1) raises, the   *)
(* comparison_matrix attribute does not expose the results of the batches  *)
(* that were compared before the failing one.                              *)
(***************************************************************************)
C7_NoPartialResults ==
    (call.op = "perform_linkage" /\ call.raised /= "no" /\ call.number_of_blocks > 1) =>
        ~(comparison_matrix.kind = "list" /\ comparison_matrix.parts /= <<>>)

(***************************************************************************)
(* C8: for a non-empty candidate-pair list and k >= 1 batches the matrix   *)
(* has exactly one row per candidate pair, and the values of each row are  *)
(* those of the row of the same pair in the single-pass (k = 1) matrix.    *)
(***************************************************************************)
SinglePass ==
    IF MergeFailed
    THEN scores_frame(compare_cl[1], candidate_pairs[1], left_df,
                      other_df(mode, left_df, right_df), call.threshold, 1)
    ELSE linkage_frame(compare_cl[1], candidate_pairs[1], left_df,
                       other_df(mode, left_df, right_df), call.threshold, 1)

\* C8: the batched matrix has one row per candidate pair, with the values
\* of the single-pass matrix.
C8_BatchedEqualsSinglePass ==
    (Compared /\ call.number_of_blocks >= 1) =>
        /\ {row.pair : row \in MatrixRows} = Range(candidate_pairs[1])
        /\ Len(comparison_matrix.rows) = Cardinality(Range(candidate_pairs[1]))
        /\ \A row \in MatrixRows :
               \E one \in Range(SinglePass.rows) : one.pair = row.pair /\ one.vals = row.vals

\* Three candidate pairs were compared in two batches.
C8_Witness ==
    /\ Produced
    /\ call.number_of_blocks = 2
    /\ Len(candidate_pairs[1]) = 3
    /\ Len(comparison_matrix.rows) = 3

(***************************************************************************)
(* Definitions used to state C9.                                           *)
(***************************************************************************)
\* The object was configured by set_linkage_variables.
ByRules == vars_call.op = "set_linkage_variables"

\* The labels of all the configured rules: the labels of the rule list, or
\* the keys of the dictionary given to set_linkage_old.
ConfiguredLabels ==
    IF ByRules THEN {e.label : e \in Range(vars_call.arg)}
    ELSE {e.key : e \in Range(vars_call.arg)}

\* The labels of the configured rules of method exact or string, in rule
\* order; of a dictionary, those that set_linkage_old went through.
ScoredLabels ==
    IF ByRules
    THEN Labels(SelectSeq(vars_call.arg, LAMBDA e : e.cmethod \in {"exact", "string"}))
    ELSE old_keys(SelectSeq(old_rules_done(vars_call.arg),
                            LAMBDA e : e.values[1] \in {"exact", "string"}))

\* The name of a column after the merge: with the suffix when the other
\* frame has a column of the same name.
Suffixed(name, others, suffix) == IF name \in others THEN name \o suffix ELSE name

(***************************************************************************)
(* C9 as stated: the columns of the matrix are the labels of all the       *)
(* configured rules, those of method numerical or date too, and the rank   *)
(* labels.                                                                 *)
(***************************************************************************)
C9_AsStated ==
    Produced =>
        Range(comparison_matrix.cols) = ConfiguredLabels \cup Range(RankLabels)

(***************************************************************************)
(* C9 amended: the columns of the matrix are the labels of the configured  *)
(* rules of method exact or string, in rule order (of a dictionary given   *)
(* to set_linkage_old: the keys of the exact and string entries it went    *)
(* through), followed by the rank labels when the call returned; a rule of *)
(* any other method (numerical, date) has no column.  A rule label that is *)
(* also a rank label is two columns of the returned matrix: the rule's     *)
(* with the suffix _x and the rank's with the suffix _y.  When the call    *)
(* raised at the merge of the rank columns the matrix has the columns of   *)
(* the rules only, under their labels.                                     *)
(***************************************************************************)
C9_Columns ==
    Compared =>
        /\ comparison_matrix.cols
               = IF MergeFailed THEN ScoredLabels
                 ELSE [c \in DOMAIN ScoredLabels |->
                          Suffixed(ScoredLabels[c], Range(RankLabels), "_x")]
                      \o [c \in DOMAIN RankLabels |->
                             Suffixed(RankLabels[c], Range(ScoredLabels), "_y")]
        /\ ByRules =>
               \A e \in Range(vars_call.arg) :
                   e.cmethod \notin {"exact", "string"}
                       => e.label \notin Range(comparison_matrix.cols)
        /\ \A row \in MatrixRows : Len(row.vals) = Len(comparison_matrix.cols)

\* A matrix was computed with a numerical and a date rule configured.
C9_Witness ==
    /\ Produced
    /\ ByRules
    /\ \E e \in Range(vars_call.arg) : e.cmethod = "numerical"
    /\ \E e \in Range(vars_call.arg) : e.cmethod = "date"
    /\ comparison_matrix.cols = <<"nome_sim">> \o RankLabels
    /\ comparison_matrix.rows /= <<>>

\* The rank a matrix row carries for a rank r of its left-hand record.
RankOrSentinel(r) == IF r = NaN THEN 7 ELSE r[1]

(***************************************************************************)
(* C10: after a perform_linkage call that compared the pairs, the matrix   *)
(* has the rank columns after the rule columns, each row carries the ranks *)
(* of the record of its left-hand id, a missing rank being 7, and the      *)
(* matrix has as many rows as there are candidate pairs.  It fails for a   *)
(* PLinkage whose two identifier columns have one name: the merge of line  *)
(* 142 raises and the matrix is left without rank columns.                 *)
(***************************************************************************)
C10_RankJoin ==
    Compared =>
        /\ Len(comparison_matrix.cols) = Len(compare_cl[1]) + Len(RankLabels)
        /\ Len(comparison_matrix.rows) = Len(candidate_pairs[1])
        /\ \A row \in MatrixRows :
               /\ row.pair \in Range(candidate_pairs[1])
               /\ row.vals[Len(compare_cl[1]) + 1]
                      = RankOrSentinel(left_df[row.pair[1]].rank_primeiro_nome)
               /\ row.vals[Len(compare_cl[1]) + 2]
                      = RankOrSentinel(left_df[row.pair[1]].rank_primeiro_nome_mae)

(***************************************************************************)
(* C11: a perform_linkage call made while the candidate-pair list is empty *)
(* does not raise and leaves the comparison matrix, the candidate pairs    *)
(* and the rank data as they were before the call.                         *)
(***************************************************************************)
\* A step that is a perform_linkage call on an empty candidate-pair list.
EmptyPairsCall == calls_left' = calls_left - 1 /\ candidate_pairs = Some(<<>>)

\* C11: perform_linkage on an empty candidate-pair list returns without
\* raising and changes neither the matrix, nor the pairs, nor the ranks.
C11_EmptyIsNoOp ==
    [][EmptyPairsCall =>
          /\ call'.op = "perform_linkage"
          /\ call'.raised = "no"
          /\ comparison_matrix' = comparison_matrix
          /\ candidate_pairs' = candidate_pairs
          /\ name_ranks' = name_ranks]_vars

\* A second perform_linkage call found the pair list empty and a matrix
\* with rows, computed by the first call, which it left in place.
C11_Witness ==
    /\ calls_left = 0
    /\ call.op = "perform_linkage"
    /\ call.raised = "no"
    /\ candidate_pairs = Some(<<>>)
    /\ name_ranks /= None
    /\ comparison_matrix.kind = "frame"
    /\ comparison_matrix.rows /= <<>>

(***************************************************************************)
(* Definitions used to state the properties of define_pairs.               *)
(***************************************************************************)
\* define_pairs was called and returned.
Defined == pairs_call.op = "define_pairs" /\ pairs_call.raised = "no"

\* The pairs that blocking with the given window finds in the sources.
BlockingPairs(window) ==
    IF mode = "dedup" THEN dedup_index(left_df, window)
    ELSE link_index(left_df, right_df[1], window)

(***************************************************************************)
(* C12: a define_pairs call on an empty record set, or on records among    *)
(* which blocking finds no pair, does not raise and sets the candidate     *)
(* pairs to the empty list.                                                *)
(***************************************************************************)
C12_EmptyIsNoError ==
    (pairs_call.op = "define_pairs" /\ BlockingPairs(pairs_call.window) = <<>>) =>
        /\ pairs_call.raised = "no"
        /\ candidate_pairs = Some(<<>>)

(***************************************************************************)
(* C13: in deduplication the candidate pairs hold no pair twice, no pair   *)
(* together with its reverse, and no pair of an identifier with itself.    *)
(***************************************************************************)
C13_UnorderedPairsOnce ==
    (Defined /\ mode = "dedup") =>
        LET ps == candidate_pairs[1]
        IN /\ \A m \in DOMAIN ps : ps[m][1] /= ps[m][2]
           /\ \A m \in DOMAIN ps : \A n \in DOMAIN ps :
                  m /= n => /\ ps[m] /= ps[n]
                            /\ ps[m] /= <<ps[n][2], ps[n][1]>>

\* Window 3 over three records with the keys of two window positions: the
\* three unordered pairs were emitted, each once.
C13_Witness ==
    /\ Defined
    /\ mode = "dedup"
    /\ pairs_call.window = 3
    /\ Len(left_df) = 3
    /\ Cardinality({left_df[i].primeiro_nome : i \in DOMAIN left_df}) = 2
    /\ Len(candidate_pairs[1]) = 3
    /\ {{pr[1], pr[2]} : pr \in Range(candidate_pairs[1])} = {{1, 2}, {1, 3}, {2, 3}}

\* The place of record i of the left source in the sequence of its records
\* sorted by key, records with equal keys in row order and records without
\* key last.
SortedPosition(i) ==
    LET key(j) == left_df[j].primeiro_nome
        before(j) == \/ key(j) /= NaN /\ key(i) = NaN
                     \/ key(j) /= NaN /\ key(i) /= NaN /\ LexLess(key(j), key(i))
                     \/ key(j) = key(i) /\ j < i
    IN 1 + Cardinality({j \in DOMAIN left_df : before(j)})

\* The number of distinct keys of the left source that sort before key k.
KeyRank(k) ==
    Cardinality({x \in {left_df[j].primeiro_nome : j \in DOMAIN left_df} :
                    x /= NaN /\ LexLess(x, k)})

Distance(a, b) == IF a >= b THEN a - b ELSE b - a

(***************************************************************************)
(* C14 as stated: deduplication blocking with window w emits only pairs of *)
(* records whose positions in the key-sorted sequence of records differ by *)
(* at most (w - 1) / 2.                                                    *)
(***************************************************************************)
C14_AsStated ==
    (Defined /\ mode = "dedup") =>
        \A pr \in Range(candidate_pairs[1]) :
            Distance(SortedPosition(pr[1]), SortedPosition(pr[2]))
                <= (pairs_call.window - 1) \div 2

(***************************************************************************)
(* C14 amended: deduplication blocking with window w emits only pairs of   *)
(* records that both have a key and whose keys' ranks among the sorted     *)
(* distinct key values differ by at most (w - 1) / 2; with w = 1 the two   *)
(* keys are equal.                                                         *)
(***************************************************************************)
C14_KeyRankWindow ==
    (Defined /\ mode = "dedup") =>
        \A pr \in Range(candidate_pairs[1]) :
            LET ka == left_df[pr[1]].primeiro_nome
                kb == left_df[pr[2]].primeiro_nome
            IN /\ ka /= NaN
               /\ kb /= NaN
               /\ Distance(KeyRank(ka), KeyRank(kb)) <= (pairs_call.window - 1) \div 2
               /\ (pairs_call.window = 1 => ka = kb)

\* Window 3 over three records with three different keys: the two pairs of
\* neighbouring keys were emitted and the pair of the outer keys was not.
C14_Witness ==
    /\ Defined
    /\ mode = "dedup"
    /\ pairs_call.window = 3
    /\ Len(left_df) = 3
    /\ \A i \in DOMAIN left_df : left_df[i].primeiro_nome /= NaN
    /\ Cardinality({left_df[i].primeiro_nome : i \in DOMAIN left_df}) = 3
    /\ Len(candidate_pairs[1]) = 2
    /\ \A pr \in Range(candidate_pairs[1]) :
           Distance(KeyRank(left_df[pr[1]].primeiro_nome),
                    KeyRank(left_df[pr[2]].primeiro_nome)) = 1

\* The keys of the left source, in row order.
Keys == [i \in DOMAIN left_df |-> left_df[i].primeiro_nome]

\* The keys of the example: records 1 and 2 with key A, record 3 with key B.
ExampleKeys == <<<<1>>, <<1>>, <<2>>>>

(***************************************************************************)
(* C15 as stated: with window 1 the candidate pairs are exactly the pairs  *)
(* of distinct records with the same key, and the records {1:A, 2:A, 3:B}  *)
(* give exactly {(1,2)}.  It fails: line 31 of define_pairs keeps every    *)
(* pair as the index made it, the record later in row order first, where   *)
(* the comment of line 29 announces pairs sorted by id; the example gives  *)
(* [(2,1)].                                                                *)
(***************************************************************************)
C15_AsStated ==
    (Defined /\ mode = "dedup" /\ pairs_call.window = 1) =>
        /\ Range(candidate_pairs[1])
               = {pr \in (DOMAIN left_df) \X (DOMAIN left_df) :
                      pr[1] < pr[2] /\ Keys[pr[1]] /= NaN /\ Keys[pr[1]] = Keys[pr[2]]}
        /\ (Keys = ExampleKeys => Range(candidate_pairs[1]) = {<<1, 2>>})

(***************************************************************************)
(* Definitions used to state the properties of the annotation files.       *)
(***************************************************************************)
ExportOps == {"save_files", "save_pairs"}

\* The export calls made so far (a run makes at most one).
Exports == SelectSeq(io_calls, LAMBDA c : c.op \in ExportOps)

\* The last call made.
LastCall == io_calls[Len(io_calls)]

\* load_pairs was the last call, after an export that did not raise.
LoadedAfter(op) ==
    /\ Len(io_calls) = 2
    /\ io_calls[1].op = op
    /\ io_calls[1].raised = "no"
    /\ io_calls[2].op = "load_pairs"

\* The pair objects of the files a call wrote, in the order written.
WrittenObjects(c) == Flatten([x \in DOMAIN c.written |-> files[c.written[x]].pairs])

\* The identifiers of a list of pair objects.
IdPairs(objs) == [n \in DOMAIN objs |-> <<objs[n].identifiers.a, objs[n].identifiers.b>>]

\* The rows of a table for a list of pairs of one class.
Rows(ps, classification) ==
    [n \in DOMAIN ps |->
        [left_id |-> ps[n][1], right_id |-> ps[n][2], classification |-> classification]]

(***************************************************************************)
(* C16: a save_files or save_pairs call without the override flag raises   *)
(* and writes nothing: the directories and the files are those of before   *)
(* the call.                                                               *)
(***************************************************************************)
C16_NoWriteWithoutOverride ==
    [][(/\ Len(io_calls') = Len(io_calls) + 1
        /\ io_calls'[Len(io_calls')].op \in ExportOps
        /\ ~io_calls'[Len(io_calls')].overwrite)
       => /\ io_calls'[Len(io_calls')].raised /= "no"
          /\ dirs' = dirs
          /\ files' = files]_vars

(***************************************************************************)
(* C17: a save_files call that does not raise writes the files PAIRS_0,    *)
(* PAIRS_1, ... of at most batchsize pair objects each, and the objects of *)
(* these files in file order are those of the exported pairs in their      *)
(* order, numbered from 1, none lost and none repeated.                    *)
(***************************************************************************)
C17_Paginated ==
    \A k \in DOMAIN Exports :
        LET c == Exports[k]
        IN (c.op = "save_files" /\ c.raised = "no") =>
               /\ Len(c.written) = (Len(c.pairs) + c.batchsize - 1) \div c.batchsize
               /\ \A x \in DOMAIN c.written :
                      /\ c.written[x][Len(c.written[x])] = PairsFile(x - 1)
                      /\ c.written[x] \in DOMAIN files
                      /\ Len(files[c.written[x]].pairs) <= c.batchsize
                      /\ Len(files[c.written[x]].pairs) >= 1
               /\ IdPairs(WrittenObjects(c)) = c.pairs
               /\ \A n \in DOMAIN WrittenObjects(c) : WrittenObjects(c)[n].cod = n

\* Three pairs were written in batches of two: a file of two objects and a
\* file of one.
C17_Witness ==
    /\ Exports /= <<>>
    /\ Exports[1].op = "save_files"
    /\ Exports[1].raised = "no"
    /\ Exports[1].batchsize = 2
    /\ Len(Exports[1].pairs) = 3
    /\ Len(Exports[1].written) = 2
    /\ Len(files[Exports[1].written[1]].pairs) = 2
    /\ Len(files[Exports[1].written[2]].pairs) = 1

(***************************************************************************)
(* C18: an export call that is given a working folder and the override     *)
(* flag but no aggregate table does not raise, and every pair object it    *)
(* writes has agg = null.                                                  *)
(***************************************************************************)
C18_AggOptional ==
    \A k \in DOMAIN Exports :
        LET c == Exports[k]
        IN (c.agg_df = None /\ c.overwrite /\ c.raised /= "Exception") =>
               /\ c.raised = "no"
               /\ \A n \in DOMAIN WrittenObjects(c) : WrittenObjects(c)[n].agg = None

(***************************************************************************)
(* C19 as stated: after an export that did not raise, paginated or not,    *)
(* load_pairs returns a table whose rows are the exported pairs that are   *)
(* not negative, with their classification.                                *)
(***************************************************************************)
C19_AsStated ==
    \A op \in ExportOps :
        LoadedAfter(op) =>
            /\ LastCall.raised = "no"
            /\ df_pairs /= None
            /\ Range(df_pairs[1])
                   = Range(Rows(io_calls[1].positive, "positive"))
                         \cup Range(Rows(io_calls[1].potential, "potential"))
                         \cup Range(Rows(io_calls[1].pairs, ""))

\* The table of the files that the earlier session left.
EarlierTable == Rows(<<<<3, 2>>>>, "positive")

(***************************************************************************)
(* C19 amended: after a save_pairs call that did not raise, load_pairs     *)
(* returns the table whose rows are the exported positive pairs followed   *)
(* by the exported potential pairs, each with its classification, and no   *)
(* negative pair.  The files of the paginated export are not read: after   *)
(* save_files, load_pairs returns what the positive and potential files    *)
(* already held, and raises when there are none.                           *)
(***************************************************************************)
C19_RoundTrip ==
    /\ LoadedAfter("save_pairs") =>
           /\ LastCall.raised = "no"
           /\ df_pairs = Some(Rows(io_calls[1].positive, "positive")
                                  \o Rows(io_calls[1].potential, "potential"))
           /\ \A n \in DOMAIN df_pairs[1] : df_pairs[1][n].classification /= "negative"
    /\ LoadedAfter("save_files") =>
           IF Join(Join(EnvPath, "annotation_files"), "POSITIVE_PAIRS.json") \in DOMAIN files
           THEN LastCall.raised = "no" /\ df_pairs = Some(EarlierTable)
           ELSE LastCall.raised /= "no" /\ df_pairs = None

\* Two positive pairs, a potential pair and a negative pair were saved, and
\* load_pairs returned the three rows of the first two classes.
C19_Witness ==
    /\ LoadedAfter("save_pairs")
    /\ Len(io_calls[1].positive) = 2
    /\ Len(io_calls[1].potential) = 1
    /\ Len(io_calls[1].negative) = 1
    /\ LastCall.raised = "no"
    /\ Len(df_pairs[1]) = 3
    /\ df_pairs[1][3].classification = "potential"

(***************************************************************************)
(* Definitions used to state the properties of linkage_grouping.           *)
(***************************************************************************)
\* The right identifiers matched to the left identifier l.
RightsOf(ps, l) == {ps[k][2] : k \in {j \in DOMAIN ps : ps[j][1] = l}}

\* The mapping lists, for each left identifier of the pairs, each of its
\* matched right identifiers once.
ListsDistinctRights(res, ps) ==
    /\ DOMAIN res = {ps[k][1] : k \in DOMAIN ps}
    /\ \A l \in DOMAIN res :
           /\ Range(res[l]) = RightsOf(ps, l)
           /\ Len(res[l]) = Cardinality(RightsOf(ps, l))

(***************************************************************************)
(* C20 as stated: each left identifier is mapped to its distinct matched   *)
(* right identifiers by descending match count, equal counts in the order  *)
(* of first occurrence in the pair list; (L1,R1), (L1,R2), (L1,R1) give    *)
(* L1 -> [R1, R2].                                                         *)
(***************************************************************************)
C20_AsStated ==
    l_pc = "done" =>
        /\ ListsDistinctRights(result, l_pairs)
        /\ \A l \in DOMAIN result : \A m \in DOMAIN result[l] : \A n \in DOMAIN result[l] :
               m < n =>
                   LET d == <<l, result[l][m]>>
                       e == <<l, result[l][n]>>
                   IN \/ match_count(l_pairs, d) > match_count(l_pairs, e)
                      \/ /\ match_count(l_pairs, d) = match_count(l_pairs, e)
                         /\ first_row(l_pairs, d) < first_row(l_pairs, e)
        /\ (l_pairs = ExampleLinks => result = (1 :> <<1, 2>>))

(***************************************************************************)
(* C20 amended: each left identifier is mapped to its distinct matched     *)
(* right identifiers by descending match count, equal counts by ascending  *)
(* right identifier; (L1,R1), (L1,R2), (L1,R1) give L1 -> [R1, R2].        *)
(***************************************************************************)
C20_ByCountThenId ==
    l_pc = "done" =>
        /\ ListsDistinctRights(result, l_pairs)
        /\ \A l \in DOMAIN result : \A m \in DOMAIN result[l] : \A n \in DOMAIN result[l] :
               m < n =>
                   LET d == <<l, result[l][m]>>
                       e == <<l, result[l][n]>>
                   IN \/ match_count(l_pairs, d) > match_count(l_pairs, e)
                      \/ /\ match_count(l_pairs, d) = match_count(l_pairs, e)
                         /\ d[2] < e[2]
        /\ (l_pairs = ExampleLinks => result = (1 :> <<1, 2>>))

\* Two right identifiers matched once each to the same left identifier
\* were listed by ascending identifier, the one that occurs second in the
\* pair list first.
C20_Witness ==
    /\ l_pc = "done"
    /\ l_pairs = <<<<1, 2>>, <<1, 1>>, <<2, 3>>>>
    /\ result = (1 :> <<1, 2>>) @@ (2 :> <<3>>)

(***************************************************************************)
(* Definitions used to state the properties of the construction and of the *)
(* guarded attributes.                                                     *)
(***************************************************************************)
\* The values the three guarded attributes hold.
Guarded == <<comparison_matrix, raw_data, data>>

\* A step that assigns to a guarded attribute.
WriteAttempt == write' /= write

(***************************************************************************)
(* C21: every assignment from outside to comparison_matrix of a matcher or *)
(* to raw_data or data of a ProcessBase object raises an error, and the    *)
(* value the object stores is the same after the attempt as before it.     *)
(***************************************************************************)
C21_GuardedWrites ==
    [][WriteAttempt => write'.raised /= "no" /\ Guarded' = Guarded]_vars

\* An assignment of a different value to comparison_matrix was attempted on
\* a matcher that holds a computed matrix: the attempt raised and the matrix
\* is still there.
C21_Witness ==
    /\ write.attr = "comparison_matrix"
    /\ write.raised = "TypeError"
    /\ comparison_matrix.kind = "frame"
    /\ Len(comparison_matrix.rows) > 0
    /\ write.value /= Some(comparison_matrix)

\* The identifier given for a side names no column of it.
BadId(df, id) == id = None \/ id[1] \notin df[1].columns

\* The arguments of the __init__ call recorded in c are not a valid
\* configuration: the left identifier is missing, or a right source is
\* supplied and its identifier is missing.
BadConfiguration(c) ==
    \/ BadId(c.left, c.left_id)
    \/ c.right /= None /\ BadId(c.right, c.right_id)

\* The raw data of the ProcessBase call recorded in c lacks an essential
\* field.
LacksEssential(c) == \E f \in base_fields : f \notin c.raw_data[1].columns

\* A step that is a call of the matcher's constructor.
MatcherBuilt == init_call' /= init_call

\* A step that is a call of ProcessBase's constructor.
ProcessBuilt == p_call' /= p_call

(***************************************************************************)
(* C22: a matcher constructor called with a missing identifier field (None *)
(* or no column of the source, on the left side or on a supplied right     *)
(* side) raises, returns no object and makes no folder; a ProcessBase      *)
(* constructor called with raw data that lacks an essential field raises   *)
(* and returns no object.  So an object the caller holds always has valid  *)
(* identifier fields and every essential field.                            *)
(***************************************************************************)
C22_FailsAtConstruction ==
    /\ [][MatcherBuilt /\ BadConfiguration(init_call') =>
              /\ init_call'.raised /= "no"
              /\ NoObject'
              /\ UNCHANGED <<env_folder, dirs, files>>]_vars
    /\ [][MatcherBuilt /\ ~BadConfiguration(init_call') =>
              init_call'.raised = "no" /\ mode' /= "idle"]_vars
    /\ [][ProcessBuilt /\ LacksEssential(p_call') =>
              p_call'.raised /= "no" /\ UNCHANGED <<field_id, raw_data, data>>]_vars
    /\ [](mode /= "idle" => ~BadConfiguration(init_call))
    /\ [](raw_data /= None => ~LacksEssential(p_call) /\ p_call.raised = "no")

\* A linkage matcher was asked for with a valid left identifier and a right
\* identifier that is no column, and a ProcessBase object with raw data
\* without NOME_MAE: both constructors raised and no object exists.
C22_Witness ==
    /\ init_call.op = "__init__"
    /\ ~BadId(init_call.left, init_call.left_id)
    /\ init_call.right /= None
    /\ init_call.right_id = Some("cpf")
    /\ init_call.raised = "Exception"
    /\ NoObject
    /\ p_call.op = "__init__"
    /\ p_call.field_id = Some("id")
    /\ LacksEssential(p_call)
    /\ p_call.raised = "Exception"
    /\ raw_data = None

(***************************************************************************)
(* C23: for every confirmed-pair list, in every order, the grouping whose  *)
(* find_root compresses paths returns the mapping that deduple_grouping    *)
(* returns: the same root identifier for every cluster, with the same      *)
(* members in the same order.                                              *)
(***************************************************************************)
C23_CompressionUnobservable ==
    g_pc = "done" => matched_records = deduple_grouping_compressed(pairs)

\* The forest that the compressing union loop leaves for the processed list.
CompressedForest == run_unions_compressed(ptr_init(unique_nots), unique_nots, pairs)

\* A list in which a lookup compressed a path of length two before a later
\* union: the two forests differ and the two mappings are the same.
C23_Witness ==
    /\ g_pc = "done"
    /\ pairs \in DeepLists
    /\ CompressedForest /= ptr
    /\ \E k \in DOMAIN ptr : ptr[k] >= 0 /\ ptr[ptr[k]] >= 0 /\ CompressedForest[k] = find_root(k, ptr)
    /\ matched_records = deduple_grouping_compressed(pairs)
    /\ DOMAIN matched_records = {1}

\* The (left, right) associations of a mapping left id -> list of right ids.
Associations(res) == UNION {{<<l, res[l][n]>> : n \in DOMAIN res[l]} : l \in DOMAIN res}

(***************************************************************************)
(* C24: linkage_grouping makes no transitive closure.  The (left, right)   *)
(* associations of its result are exactly the distinct confirmed pairs: a  *)
(* right identifier is listed under a left identifier only if that pair    *)
(* was confirmed, also when two left identifiers share a right identifier. *)
(***************************************************************************)
C24_NoClosure ==
    l_pc = "done" => Associations(result) = Range(l_pairs)

\* Two left identifiers share the right identifier 1 and one of them has a
\* second right identifier, which the other does not receive.
C24_Witness ==
    /\ l_pc = "done"
    /\ Range(l_pairs) = {<<1, 1>>, <<2, 1>>, <<2, 3>>}
    /\ result = (1 :> <<1>>) @@ (2 :> <<1, 3>>)

\* The cod values of a list of pair objects.
Cods(objs) == [n \in DOMAIN objs |-> objs[n].cod]

\* 1, 2, ..., n
Counting(n) == [k \in 1..n |-> k]

\* The export calls that did not raise.
Exported == SelectSeq(Exports, LAMBDA c : c.raised = "no")

\* format_annotation numbers the pairs of c from 1 whatever the size of its
\* internal batches.
NumberedOverBatches(c) ==
    \A b \in 1..MaxBatch :
        Cods(format_annotation(c.pairs, left_df, right_df, c.agg_df, b))
            = Counting(Len(c.pairs))

(***************************************************************************)
(* C25 as stated: the cod values of the pair objects of an export are 1,   *)
(* 2, ..., N in pair-list order and none repeats within the export,        *)
(* however the pairs are split into internal batches or output files.      *)
(***************************************************************************)
C25_AsStated ==
    \A k \in DOMAIN Exported :
        LET c == Exported[k]
        IN /\ Cods(WrittenObjects(c)) = Counting(Len(WrittenObjects(c)))
           /\ c.op = "save_files" => NumberedOverBatches(c)

\* The pair objects of the file of one class that the call c wrote.
ClassObjects(c, x) == files[c.written[x]].pairs

(***************************************************************************)
(* C25 amended: the cod values are 1, 2, ..., N in pair-list order within  *)
(* each pair list that an export formats.  For save_files that is the      *)
(* whole list, over all its internal batches and output files.  For        *)
(* save_pairs it is each of the three class lists: the count starts again  *)
(* at 1 in the positive, the potential and the negative file, so a cod     *)
(* value repeats between the files of one call.                            *)
(***************************************************************************)
C25_NumberedPerList ==
    \A k \in DOMAIN Exported :
        LET c == Exported[k]
        IN IF c.op = "save_files"
           THEN /\ Cods(WrittenObjects(c)) = Counting(Len(c.pairs))
                /\ NumberedOverBatches(c)
           ELSE /\ Len(c.written) = 3
                /\ \A x \in 1..3 :
                       Cods(ClassObjects(c, x)) = Counting(Len(ClassObjects(c, x)))
                /\ IdPairs(ClassObjects(c, 1)) = c.positive
                /\ IdPairs(ClassObjects(c, 2)) = c.potential
                /\ IdPairs(ClassObjects(c, 3))
                       = SubSeq(c.negative, 1, Len(ClassObjects(c, 3)))

\* A save_pairs call wrote two positive pairs and one potential pair: the
\* cod values of its files are 1, 2 and 1.
C25_Witness ==
    /\ Len(Exported) = 1
    /\ Exported[1].op = "save_pairs"
    /\ Len(Exported[1].positive) = 2
    /\ Len(Exported[1].potential) = 1
    /\ Exported[1].negative = <<>>
    /\ Cods(WrittenObjects(Exported[1])) = <<1, 2, 1>>

(***************************************************************************)
(* C26: a save_pairs call given an integer negative_max writes to the      *)
(* negative file the first min(negative_max, number of negative pairs)     *)
(* negative pairs, never more than negative_max of them, and writes every  *)
(* positive and every potential pair.                                      *)
(***************************************************************************)
C26_NegativeMax ==
    \A k \in DOMAIN Exported :
        LET c == Exported[k]
        IN (c.op = "save_pairs" /\ c.negative_max /= None) =>
               /\ Len(ClassObjects(c, 3)) <= c.negative_max[1]
               /\ IdPairs(ClassObjects(c, 3))
                      = SubSeq(c.negative, 1, Min2(c.negative_max[1], Len(c.negative)))
               /\ IdPairs(ClassObjects(c, 1)) = c.positive
               /\ IdPairs(ClassObjects(c, 2)) = c.potential

\* The rows of the matrix in order.
FrameRows == comparison_matrix.rows

\* The cell of rank column c in the joined rank data (self.name_ranks) for
\* the left-hand record of a row, a missing rank filled with the sentinel.
JoinedRank(row, c) ==
    IF name_ranks[1][row.pair[1]][c] = NaN THEN RankSentinel
    ELSE name_ranks[1][row.pair[1]][c][1]

(***************************************************************************)
(* C27: censoring changes rule-score cells only.  For every threshold the  *)
(* matrix has one row per candidate pair, in the order of the pairs; each  *)
(* rank cell holds the value of the joined rank data (rank 0 and the       *)
(* sentinel 7 included) and is not set to 0.0 by the censoring; and each   *)
(* rule-score cell is the raw score or 0.0.                                *)
(***************************************************************************)
C27_CensorLeavesRanks ==
    Produced =>
        /\ [n \in DOMAIN FrameRows |-> FrameRows[n].pair] = candidate_pairs[1]
        /\ \A n \in DOMAIN FrameRows :
               /\ Len(FrameRows[n].vals) = Len(compare_cl[1]) + Len(RankLabels)
               /\ \A c \in DOMAIN RankLabels :
                      FrameRows[n].vals[Len(compare_cl[1]) + c] = JoinedRank(FrameRows[n], c)
               /\ \A c \in RuleColumns :
                      FrameRows[n].vals[c] \in {0, RawScore(FrameRows[n], c)}

\* With threshold 1.0 a row had a rule score of 0.5 set to 0.0 while its
\* rank cells kept the rank 2 and the rank 0, and another row kept the
\* sentinel 7 and the rank 3.
C27_Witness ==
    /\ Produced
    /\ call.threshold = Some(ScoreOne)
    /\ \E row \in MatrixRows :
           /\ \E c \in RuleColumns : RawScore(row, c) = ScoreOne \div 2 /\ row.vals[c] = 0
           /\ row.vals[Len(compare_cl[1]) + 1] = 2
           /\ row.vals[Len(compare_cl[1]) + 2] = 0
    /\ \E row \in MatrixRows :
           /\ row.vals[Len(compare_cl[1]) + 1] = RankSentinel
           /\ row.vals[Len(compare_cl[1]) + 2] = 3

\* A step that is a perform_linkage call.
LinkageCall == calls_left' = calls_left - 1

\* A rule-setting call (set_linkage_variables or set_linkage_old) has made
\* the comparer and define_pairs has completed.
Configured == compare_cl /= None /\ candidate_pairs /= None

\* The value an assignment of [] leaves in _comparison_matrix.
EmptyList == [kind |-> "list", parts |-> <<>>]

(***************************************************************************)
(* C28 as stated: a comparison matrix is produced only after both          *)
(* set_linkage_variables and define_pairs have completed; a                *)
(* perform_linkage call made before either of them raises an error and     *)
(* leaves the comparison matrix unset; and perform_linkage never changes   *)
(* the candidate pairs.                                                    *)
(***************************************************************************)
C28_AsStated ==
    /\ [](comparison_matrix.kind = "frame" => Configured)
    /\ [][LinkageCall => candidate_pairs' = candidate_pairs]_vars
    /\ [][LinkageCall /\ ~Configured =>
              call'.raised /= "no" /\ comparison_matrix' = NoMatrix]_vars

(***************************************************************************)
(* C28 amended: a comparison matrix is produced only after a rule-setting  *)
(* call (set_linkage_variables or set_linkage_old) has made the comparer   *)
(* and define_pairs has completed, and perform_linkage never changes the   *)
(* candidate pairs.  A perform_linkage call made before define_pairs has   *)
(* completed raises and leaves _comparison_matrix as it was.  A call made  *)
(* after define_pairs and before any rule-setting call raises only when    *)
(* there are candidate pairs and number_of_blocks is at least 1: it leaves *)
(* _comparison_matrix as it was when number_of_blocks is 1 and as an empty *)
(* list when it is larger; with no candidate pairs or number_of_blocks     *)
(* below 1 it returns without an error and leaves _comparison_matrix as it *)
(* was.  No such call produces a matrix.                                   *)
(***************************************************************************)
C28_Ordering ==
    /\ [](comparison_matrix.kind = "frame" => Configured)
    /\ [][LinkageCall => candidate_pairs' = candidate_pairs]_vars
    /\ [][LinkageCall /\ candidate_pairs = None =>
              call'.raised = "TypeError" /\ comparison_matrix' = comparison_matrix]_vars
    /\ [][LinkageCall /\ candidate_pairs /= None /\ compare_cl = None =>
              IF Len(candidate_pairs[1]) > 0 /\ call'.number_of_blocks >= 1
              THEN /\ call'.raised = "AttributeError"
                   /\ comparison_matrix' = (IF call'.number_of_blocks = 1
                                            THEN comparison_matrix ELSE EmptyList)
              ELSE /\ call'.raised = "no"
                   /\ comparison_matrix' = comparison_matrix]_vars
    /\ [][LinkageCall /\ ~Configured => comparison_matrix'.kind /= "frame"]_vars

\* perform_linkage was called with two batches on a matcher that has
\* candidate pairs and no comparison rules: it raised and left an empty
\* list in _comparison_matrix.
C28_Witness ==
    /\ call.op = "perform_linkage"
    /\ call.number_of_blocks = 2
    /\ call.raised = "AttributeError"
    /\ compare_cl = None
    /\ candidate_pairs /= None
    /\ Len(candidate_pairs[1]) > 0
    /\ comparison_matrix = EmptyList

RECURSIVE RootWithin(_, _, _)
\* Following at most n parent links from k ends at a root.
RootWithin(k, p, n) ==
    IF p[k] < 0 THEN TRUE
    ELSE IF n = 0 \/ p[k] \notin DOMAIN p THEN FALSE
    ELSE RootWithin(p[k], p, n - 1)

RECURSIVE RootAfter(_, _, _)
\* The element reached from k by at most n parent links.
RootAfter(k, p, n) ==
    IF p[k] < 0 \/ n = 0 \/ p[k] \notin DOMAIN p THEN k ELSE RootAfter(p[k], p, n - 1)

\* The roots of a forest.
Roots(p) == {k \in DOMAIN p : p[k] < 0}

\* The elements of the tree of the root r.
Tree(p, r) == {k \in DOMAIN p : RootAfter(k, p, Cardinality(DOMAIN p)) = r}

RECURSIVE SumOfSizes(_, _)
\* The sum of the sizes that the counters of the roots in S give.
SumOfSizes(p, S) ==
    IF S = {} THEN 0
    ELSE LET r == CHOOSE x \in S : TRUE IN -p[r] + SumOfSizes(p, S \ {r})

(***************************************************************************)
(* C29: from the set-up on and after every union step the parent array is  *)
(* a forest.  Every entry is a negative counter or the position of another *)
(* element; following parent links from any element ends at a root, so     *)
(* there is no cycle and find_root returns a root; the counter of each     *)
(* root is minus the number of elements of its tree; and the sizes add up  *)
(* to the number of distinct identifiers.                                  *)
(***************************************************************************)
C29_ValidForest ==
    g_pc \in {"loop", "done"} =>
        /\ DOMAIN ptr = 0..(Len(unique_nots) - 1)
        /\ \A k \in DOMAIN ptr :
               /\ ptr[k] < 0 \/ ptr[k] \in (DOMAIN ptr) \ {k}
               /\ RootWithin(k, ptr, Cardinality(DOMAIN ptr))
               /\ ptr[find_root(k, ptr)] < 0
        /\ \A r \in Roots(ptr) : ptr[r] = -Cardinality(Tree(ptr, r))
        /\ SumOfSizes(ptr, Roots(ptr)) = Len(unique_nots)

\* Three unions over five identifiers have built a tree of four elements
\* with a path of two links, next to a tree of one element.
C29_Witness ==
    /\ g_pc = "loop"
    /\ index = 3
    /\ Len(unique_nots) = 5
    /\ \E k \in DOMAIN ptr : ptr[k] >= 0 /\ ptr[ptr[k]] >= 0
    /\ \E r \in Roots(ptr) : ptr[r] = -4
    /\ \E r \in Roots(ptr) : ptr[r] = -1

====
